---- MODULE Spec2Model ----
(***************************************************************************)
(* A model of fdt-rs: the flattened-device-tree header reader, the token   *)
(* parser, the unindexed cursor, the index builder and the indexed        *)
(* iterators.  The device tree buffer is a sequence of bytes; every       *)
(* operation is translated from the Rust source.                          *)
(***************************************************************************)
EXTENDS Integers, Sequences, FiniteSets, TLC

(***************************************************************************)
(* Bounds of the explored inputs.                                          *)
(***************************************************************************)
MaxToks == 4
MaxFaultToks == 2
MaxRsv == 2
MaxNodes == 3
MaxStrs == 2
MaxOffset == 6

(***************************************************************************)
(* Constants of the binary format and of the record layout.                *)
(***************************************************************************)
FDT_MAGIC == <<208, 13, 254, 237>>
MIN_HEADER_SIZE == 40
OFF_totalsize == 4
OFF_off_dt_struct == 8
OFF_off_dt_strings == 12
OFF_off_mem_rsvmap == 16
TOK_BEGIN_NODE == 1
TOK_END_NODE == 2
TOK_PROP == 3
TOK_NOP == 4
TOK_END == 9
MAX_NODE_NAME_LEN == 31
SIZE_fdt_prop_header == 8
SIZE_fdt_reserve_entry == 16
SIZE_u32 == 4
SizeOfNode == 48
SizeOfProp == 24
AlignOfNode == 8

(***************************************************************************)
(* Byte-slice primitives (SliceRead).                                      *)
(***************************************************************************)
Min(a, b) == IF a < b THEN a ELSE b

Slice(b, from, to) == [i \in 1..(to - from) |-> b[from + i]]

U32(w) == ((w[1] * 256 + w[2]) * 256 + w[3]) * 256 + w[4]

read_be_u32(b, off) ==
    IF off + SIZE_u32 > Len(b)
    THEN [ok |-> FALSE, w |-> <<0, 0, 0, 0>>]
    ELSE [ok |-> TRUE, w |-> Slice(b, off, off + SIZE_u32)]

nread_bstring0(b, pos, n) ==
    LET end == Min(n + pos, Len(b))
        nuls == {i \in pos..(end - 1) : b[i + 1] = 0}
    IN  IF nuls = {}
        THEN [ok |-> FALSE, s |-> <<>>]
        ELSE LET i == CHOOSE j \in nuls : \A k \in nuls : j <= k
             IN  [ok |-> TRUE, s |-> Slice(b, pos, i)]

read_be_u64(b, off) ==
    IF off + 2 * SIZE_u32 > Len(b)
    THEN [ok |-> FALSE, hi |-> <<0, 0, 0, 0>>, lo |-> <<0, 0, 0, 0>>]
    ELSE [ok |-> TRUE, hi |-> Slice(b, off, off + SIZE_u32),
          lo |-> Slice(b, off + SIZE_u32, off + 2 * SIZE_u32)]

read_bstring0(b, pos) == nread_bstring0(b, pos, Len(b))

\* align_offset that adds no padding
align_offset_none(addr, a) == 0

align_offset(addr, a) == (a - (addr % a)) % a

(***************************************************************************)
(* The inputs: a device tree blob is laid out as header, reservation map,  *)
(* struct block, strings block.  The struct block is the encoding of a     *)
(* list of token symbols:                                                  *)
(*   B BEGIN_NODE   E END_NODE   P PROP   N NOP   X END   U unknown token  *)
(*   O PROP whose len runs past the buffer   M PROP with nameoff > len     *)
(*   H PROP token whose header is cut off by the end of the buffer         *)
(*   C PROP "compatible" = "a"     D PROP "compatible" = "b", "a", "cdef"  *)
(*   Q PROP "x" = "a"                                                      *)
(* The k-th B carries NodeName(k), the k-th P carries PropVal(k).          *)
(***************************************************************************)
BE32(n) == <<n \div 16777216, (n \div 65536) % 256, (n \div 256) % 256, n % 256>>

Pad4(s) == s \o [i \in 1..((4 - (Len(s) % 4)) % 4) |-> 0]

NodeName(k) == [i \in 1..(k - 1) |-> 96 + k]

PropLen(k) == CASE k % 3 = 1 -> 4 [] k % 3 = 2 -> 0 [] OTHER -> 5

PropVal(k) == [i \in 1..PropLen(k) |-> 16 * k + i]

PropNameOff(k) == IF k % 2 = 1 THEN 0 ELSE 11

\* the properties that hold NUL-terminated strings
StrProps == {"C", "D", "Q"}

StrPropVal(h) ==
    CASE h = "C" -> <<97, 0>>
      [] h = "D" -> <<98, 0, 97, 0, 99, 100, 101, 102, 0>>
      [] OTHER   -> <<97, 0>>

StrPropNameOff(h) == IF h = "Q" THEN 11 ELSE 0

StringsBlock == <<99, 111, 109, 112, 97, 116, 105, 98, 108, 101, 0, 120, 0>>

RECURSIVE EncToks(_, _, _)
EncToks(ts, nb, np) ==
    IF ts = <<>> THEN <<>>
    ELSE LET h == Head(ts)
             r == Tail(ts)
         IN  CASE h = "B" -> BE32(TOK_BEGIN_NODE) \o Pad4(NodeName(nb + 1) \o <<0>>)
                                \o EncToks(r, nb + 1, np)
               [] h = "P" -> BE32(TOK_PROP) \o BE32(PropLen(np + 1)) \o BE32(PropNameOff(np + 1))
                                \o Pad4(PropVal(np + 1)) \o EncToks(r, nb, np + 1)
               [] h \in StrProps ->
                     BE32(TOK_PROP) \o BE32(Len(StrPropVal(h))) \o BE32(StrPropNameOff(h))
                                \o Pad4(StrPropVal(h)) \o EncToks(r, nb, np)
               [] h = "E" -> BE32(TOK_END_NODE) \o EncToks(r, nb, np)
               [] h = "N" -> BE32(TOK_NOP) \o EncToks(r, nb, np)
               [] h = "X" -> BE32(TOK_END) \o EncToks(r, nb, np)
               [] h = "U" -> BE32(5) \o EncToks(r, nb, np)
               [] h = "O" -> BE32(TOK_PROP) \o BE32(4096) \o BE32(0) \o EncToks(r, nb, np)
               [] h = "M" -> BE32(TOK_PROP) \o BE32(0) \o BE32(8192) \o EncToks(r, nb, np)
               [] OTHER   -> BE32(TOK_PROP) \o EncToks(r, nb, np)

RECURSIVE Depth(_)
Depth(ts) ==
    IF ts = <<>> THEN 0
    ELSE LET d == Depth(SubSeq(ts, 1, Len(ts) - 1))
             h == ts[Len(ts)]
         IN  CASE h = "B" -> d + 1
               [] h = "E" -> IF d > 0 THEN d - 1 ELSE 0
               [] OTHER   -> d

Closed(ts) == ts \o [i \in 1..Depth(ts) |-> "E"] \o <<"X">>

RsvEntry(k) == BE32(0) \o BE32(4096 * k) \o BE32(0) \o BE32(256 * k)

RECURSIVE RsvMap(_, _)
RsvMap(n, term) ==
    IF n = 0 THEN (IF term THEN [i \in 1..SIZE_fdt_reserve_entry |-> 0] ELSE <<>>)
    ELSE RsvMap(n - 1, FALSE) \o RsvEntry(n) \o RsvMap(0, term)

\* k entries placed after the terminating entry of the map
PostMap(k) == [i \in 1..(SIZE_fdt_reserve_entry * k) |-> RsvEntry(9)[((i - 1) % SIZE_fdt_reserve_entry) + 1]]

\* inp: [toks, strs, magic, dTotal, dRsv, dStruct, cut, addr, nrsv, term, post]
Encode(inp) ==
    LET rsv     == RsvMap(inp.nrsv, inp.term) \o PostMap(inp.post)
        struct  == EncToks(inp.toks, 0, 0)
        strs    == IF inp.strs THEN StringsBlock ELSE <<>>
        offRsv  == MIN_HEADER_SIZE
        offStr  == offRsv + Len(rsv)
        offStrs == offStr + Len(struct)
        total   == offStrs + Len(strs)
        hdr     == (IF inp.magic THEN FDT_MAGIC ELSE <<208, 13, 254, 238>>)
                   \o BE32(total + inp.dTotal)
                   \o BE32(offStr + inp.dStruct)
                   \o BE32(offStrs)
                   \o BE32(offRsv + inp.dRsv)
                   \o BE32(17) \o BE32(16) \o BE32(0)
                   \o BE32(Len(strs)) \o BE32(Len(struct))
        all     == hdr \o rsv \o struct \o strs
    IN  IF inp.cut = 0 THEN all ELSE SubSeq(all, 1, Min(inp.cut, Len(all)))

SeqsUpTo(S, n) == UNION {[1..k -> S] : k \in 0..n}

Plain(ts, strs) ==
    [toks |-> ts, strs |-> strs, magic |-> TRUE, dTotal |-> 0, dRsv |-> 0, dStruct |-> 0,
     cut |-> 0, addr |-> 0, nrsv |-> 0, term |-> TRUE, post |-> 0]

\* every token prefix, closed by the missing END_NODEs and END, or by END alone
TreeInputs ==
    {Plain(Closed(p), TRUE) : p \in SeqsUpTo({"B", "E", "P", "N"}, MaxToks)}
    \cup {Plain(p \o <<"X">>, TRUE) : p \in SeqsUpTo({"B", "E", "P", "N"}, MaxToks)}

\* short prefixes followed by a fault
FaultInputs ==
    {Plain(p \o f, TRUE) : p \in SeqsUpTo({"B", "E", "P", "N"}, MaxFaultToks),
                           f \in {<<"U", "X">>, <<"O">>, <<"M", "X">>, <<"P", "B", "E", "X">>}}
    \cup {Plain(p \o f, FALSE) : p \in SeqsUpTo({"B", "E", "P", "N"}, MaxFaultToks),
                                 f \in {<<>>, <<"H">>, <<"X">>}}

\* the nestings of n nodes under one root, as BEGIN_NODE/END_NODE lists
Skeletons(n) ==
    {sk \in [1..(2 * n) -> {"B", "E"}] :
        /\ Depth(sk) = 0
        /\ Cardinality({i \in 1..(2 * n) : sk[i] = "B"}) = n
        /\ \A i \in 1..(2 * n - 1) : Depth(SubSeq(sk, 1, i)) > 0}

\* the property lists a node is given
NodeProps == {<<"C">>, <<"Q", "D">>, <<"P">>}

\* the skeleton with the properties f[k] placed after the k-th BEGIN_NODE
RECURSIVE WithProps(_, _, _)
WithProps(sk, f, k) ==
    IF sk = <<>> THEN <<>>
    ELSE IF Head(sk) = "B" THEN <<"B">> \o f[k + 1] \o WithProps(Tail(sk), f, k + 1)
    ELSE <<"E">> \o WithProps(Tail(sk), f, k)

\* every tree of up to MaxNodes nodes with string properties
CompatInputs ==
    UNION {{Plain(WithProps(sk, f, 0) \o <<"X">>, TRUE) :
                sk \in Skeletons(n), f \in [1..n -> NodeProps]} : n \in 1..MaxNodes}

\* the value of a string-list property: every string followed by a NUL
RECURSIVE JoinNul(_)
JoinNul(ss) == IF ss = <<>> THEN <<>> ELSE Head(ss) \o <<0>> \o JoinNul(Tail(ss))

\* the strings "", "a", "bcde"
StrSet == {<<>>, <<97>>, <<98, 99, 100, 101>>}

\* the property values read: the lists of up to MaxStrs strings, and the
\* values without a terminating NUL
PropInputs ==
    {[ss |-> ss, raw |-> 0] : ss \in SeqsUpTo(StrSet, MaxStrs)}
    \cup {[ss |-> <<>>, raw |-> k] : k \in {1, 3}}

PropValueOf(inp) == IF inp.raw = 0 THEN JoinNul(inp.ss) ELSE PropVal(inp.raw)

\* one tree under every header variation
HeaderInputs ==
    {[toks |-> <<"B", "P", "E", "X">>, strs |-> TRUE, magic |-> m, dTotal |-> d, dRsv |-> dr,
      dStruct |-> ds, cut |-> c, addr |-> a, nrsv |-> 0, term |-> TRUE, post |-> 0] :
        m \in BOOLEAN, d \in {0 - 4, 0, 4}, dr \in {0, 2}, ds \in {0, 1, 0 - 56},
        c \in {0, 2, 6, 18, 44}, a \in {0, 2}}

\* one tree under every reservation map
RsvInputs ==
    {[toks |-> <<"B", "E", "X">>, strs |-> TRUE, magic |-> TRUE, dTotal |-> 0, dRsv |-> 0,
      dStruct |-> 0, cut |-> 0, addr |-> 0, nrsv |-> n, term |-> t, post |-> k] :
        n \in 0..MaxRsv, t \in BOOLEAN, k \in 0..MaxRsv}

Inputs == TreeInputs \cup FaultInputs \cup HeaderInputs \cup RsvInputs \cup CompatInputs

(***************************************************************************)
(* Header reader (DevTree).                                                *)
(***************************************************************************)
is_aligned(offset) == offset % SIZE_u32 = 0

\* verify_magic that accepts every readable first word
verify_magic_any(b) ==
    LET m == read_be_u32(b, 0)
    IN  IF ~m.ok THEN "ParseError" ELSE "ok"

verify_magic(b) ==
    LET m == read_be_u32(b, 0)
    IN  IF ~m.ok THEN "ParseError"
        ELSE IF m.w # FDT_MAGIC THEN "InvalidMagicNumber"
        ELSE "ok"

\* read_totalsize without the alignment assertion
read_totalsize_unasserted(b, addr) ==
    IF verify_magic(b) # "ok" THEN [st |-> verify_magic(b), v |-> 0]
    ELSE LET t == read_be_u32(b, OFF_totalsize)
         IN  IF ~t.ok THEN [st |-> "ParseError", v |-> 0]
             ELSE [st |-> "ok", v |-> U32(t.w)]

\* [st, v]: st is "ok", an error, or "panic" (the alignment assertion)
read_totalsize(b, addr) ==
    IF ~is_aligned(addr) THEN [st |-> "panic", v |-> 0]
    ELSE IF verify_magic(b) # "ok" THEN [st |-> verify_magic(b), v |-> 0]
    ELSE LET t == read_be_u32(b, OFF_totalsize)
         IN  IF ~t.ok THEN [st |-> "ParseError", v |-> 0]
             ELSE [st |-> "ok", v |-> U32(t.w)]

\* a header accessor: read_be_u32(field).unwrap()
field(b, off) ==
    LET f == read_be_u32(b, off)
    IN  IF f.ok THEN [st |-> "ok", v |-> U32(f.w)] ELSE [st |-> "panic", v |-> 0]

totalsize(b) == field(b, OFF_totalsize)
off_mem_rsvmap(b) == field(b, OFF_off_mem_rsvmap)
off_dt_struct(b) == field(b, OFF_off_dt_struct)
off_dt_strings(b) == field(b, OFF_off_dt_strings)

\* DevTree::new that also rejects a buffer of exactly totalsize bytes
DevTree_new_strict(b, addr) ==
    LET t == read_totalsize(b, addr)
    IN  IF t.st # "ok" THEN t.st
        ELSE IF t.v <= Len(b) THEN "ParseError"
        ELSE IF off_mem_rsvmap(b).st = "panic" THEN "panic"
        ELSE IF ~is_aligned(off_mem_rsvmap(b).v) THEN "ParseError"
        ELSE IF off_dt_struct(b).st = "panic" THEN "panic"
        ELSE IF ~is_aligned(off_dt_struct(b).v) THEN "ParseError"
        ELSE "ok"

\* DevTree::new without the alignment check of off_dt_struct
DevTree_new_unchecked_struct(b, addr) ==
    LET t == read_totalsize(b, addr)
    IN  IF t.st # "ok" THEN t.st
        ELSE IF t.v < Len(b) THEN "ParseError"
        ELSE IF off_mem_rsvmap(b).st = "panic" THEN "panic"
        ELSE IF ~is_aligned(off_mem_rsvmap(b).v) THEN "ParseError"
        ELSE IF off_dt_struct(b).st = "panic" THEN "panic"
        ELSE "ok"

\* DevTree::new: "ok", an error, or "panic"
DevTree_new(b, addr) ==
    LET t == read_totalsize(b, addr)
    IN  IF t.st # "ok" THEN t.st
        ELSE IF t.v < Len(b) THEN "ParseError"
        ELSE IF off_mem_rsvmap(b).st = "panic" THEN "panic"
        ELSE IF ~is_aligned(off_mem_rsvmap(b).v) THEN "ParseError"
        ELSE IF off_dt_struct(b).st = "panic" THEN "panic"
        ELSE IF ~is_aligned(off_dt_struct(b).v) THEN "ParseError"
        ELSE "ok"

(***************************************************************************)
(* Token parser.                                                           *)
(***************************************************************************)
Tok(st, kind, name, val, nameoff, off) ==
    [st |-> st, kind |-> kind, name |-> name, val |-> val, nameoff |-> nameoff, off |-> off]

\* the two debug assertions at the head of next_devtree_token
debug_assert_ok(b, addr, off) ==
    /\ (addr + off) % SIZE_u32 = 0
    /\ Len(b) > off + SIZE_u32

\* from_u32 that takes every unknown token value for END
from_u32_unknown_is_end(w) ==
    CASE w = BE32(TOK_BEGIN_NODE) -> "BeginNode"
      [] w = BE32(TOK_END_NODE) -> "EndNode"
      [] w = BE32(TOK_PROP) -> "Prop"
      [] w = BE32(TOK_NOP) -> "Nop"
      [] OTHER -> "End"

\* from_u32 that takes a NOP for the END of the stream
from_u32_nop_is_end(w) ==
    CASE w = BE32(TOK_BEGIN_NODE) -> "BeginNode"
      [] w = BE32(TOK_END_NODE) -> "EndNode"
      [] w = BE32(TOK_PROP) -> "Prop"
      [] w = BE32(TOK_NOP) -> "End"
      [] w = BE32(TOK_END) -> "End"
      [] OTHER -> "None"

\* FromPrimitive::from_u32 for FdtTok: the variant of a token word, or "None"
from_u32(w) ==
    CASE w = BE32(TOK_BEGIN_NODE) -> "BeginNode"
      [] w = BE32(TOK_END_NODE) -> "EndNode"
      [] w = BE32(TOK_PROP) -> "Prop"
      [] w = BE32(TOK_NOP) -> "Nop"
      [] w = BE32(TOK_END) -> "End"
      [] OTHER -> "None"

\* st: "tok" (Ok(Some)), "end" (Ok(None)), "err" (Err(ParseError)), "panic".
\* off is the value left in *off when the call returns.
\* dbg: the build has debug assertions enabled.
next_devtree_token(b, addr, off, dbg) ==
    IF dbg /\ ~debug_assert_ok(b, addr, off) THEN Tok("panic", "-", <<>>, <<>>, 0, off)
    ELSE
    LET w    == read_be_u32(b, off)
        off1 == off + SIZE_u32
    IN  IF ~w.ok THEN Tok("err", "-", <<>>, <<>>, 0, off)
        ELSE CASE from_u32(w.w) = "BeginNode" ->
                    LET nm   == nread_bstring0(b, off1, MAX_NODE_NAME_LEN - 1)
                        off2 == off1 + Len(nm.s) + 1
                        off3 == off2 + align_offset(addr + off2, SIZE_u32)
                    IN  IF ~nm.ok THEN Tok("err", "-", <<>>, <<>>, 0, off1)
                        ELSE Tok("tok", "BeginNode", nm.s, <<>>, 0, off3)
               [] from_u32(w.w) = "Prop" ->
                    \* &buf[*off] panics when off1 >= len; a header that is only
                    \* partly inside the buffer is read out of bounds and the
                    \* slice below then starts past the end: every outcome aborts
                    IF off1 + SIZE_fdt_prop_header > Len(b)
                    THEN Tok("panic", "-", <<>>, <<>>, 0, off1)
                    ELSE LET prop_len == U32(Slice(b, off1, off1 + 4))
                             nameoff  == U32(Slice(b, off1 + 4, off1 + 8))
                             off2     == off1 + SIZE_fdt_prop_header
                             off3     == off2 + prop_len
                             off4     == off3 + align_offset(addr + off3, SIZE_u32)
                         IN  IF off3 > Len(b) THEN Tok("panic", "-", <<>>, <<>>, 0, off2)
                             ELSE IF nameoff > Len(b) THEN Tok("err", "-", <<>>, <<>>, 0, off4)
                             ELSE Tok("tok", "Prop", <<>>, Slice(b, off2, off3), nameoff, off4)
               [] from_u32(w.w) = "EndNode" -> Tok("tok", "EndNode", <<>>, <<>>, 0, off1)
               [] from_u32(w.w) = "Nop" -> Tok("tok", "Nop", <<>>, <<>>, 0, off1)
               [] from_u32(w.w) = "End" -> Tok("end", "-", <<>>, <<>>, 0, off1)
               [] OTHER -> Tok("err", "-", <<>>, <<>>, 0, off1)

(***************************************************************************)
(* Unindexed cursor (DevTreeIter).  parent = 0 is the None of              *)
(* Option<NonZeroUsize>.                                                   *)
(***************************************************************************)
Cursor(offset, parent) == [offset |-> offset, parent |-> parent]

\* what a call on an iterator returned: kind is "node", "prop", "entry", "none",
\* "panic" or "diverge"; iter is the cursor snapshot an unindexed handle carries,
\* node the record an indexed handle points to
Item(kind, name, val, nameoff, iter, node) ==
    [kind |-> kind, name |-> name, val |-> val, nameoff |-> nameoff, iter |-> iter,
     node |-> node]

NoItem(kind) == Item(kind, <<>>, <<>>, 0, Cursor(0, 0), 0)

DevTreeIter_new(b) == Cursor(off_dt_struct(b).v, 0)

\* a copy that forgets the node the cursor is in
DevTreeIter_clone_no_parent(c) == Cursor(c.offset, 0)

\* #[derive(Clone)]: a copy of the fields; the tree is shared by reference
DevTreeIter_clone(c) == Cursor(c.offset, c.parent)

\* current_node_itr that hands out the cursor where it stands
current_node_itr_in_place(c) == Cursor(c.offset, c.parent)

current_node_itr(c) == Cursor(c.parent, c.parent)

\* next() that ends the iteration at every END_NODE token
RECURSIVE next_devtree_item_end_stops(_, _, _, _)
next_devtree_item_end_stops(b, addr, c, dbg) ==
    CHOOSE out \in
      {CASE t.st = "tok" /\ t.kind = "BeginNode" ->
                [res |-> Item("node", t.name, <<>>, 0, Cursor(t.off, c.offset), 0),
                 cur |-> Cursor(t.off, c.offset)]
          [] t.st = "tok" /\ t.kind = "Prop" ->
                IF c.parent = 0
                THEN [res |-> NoItem("none"), cur |-> Cursor(t.off, c.parent)]
                ELSE [res |-> Item("prop", <<>>, t.val, t.nameoff, current_node_itr(c), 0),
                      cur |-> Cursor(t.off, c.parent)]
          [] t.st = "tok" /\ t.kind = "EndNode" ->
                [res |-> NoItem("none"), cur |-> Cursor(t.off, 0)]
          [] t.st = "tok" /\ t.kind = "Nop" ->
                next_devtree_item_end_stops(b, addr, Cursor(t.off, c.parent), dbg)
          [] t.st = "panic" ->
                [res |-> NoItem("panic"), cur |-> Cursor(t.off, c.parent)]
          [] OTHER ->
                [res |-> NoItem("none"), cur |-> Cursor(t.off, c.parent)]
       : t \in {next_devtree_token(b, addr, c.offset, dbg)}} : TRUE

\* next() that takes the offset behind the BEGIN_NODE token for the open node
RECURSIVE next_devtree_item_parent_behind(_, _, _, _)
next_devtree_item_parent_behind(b, addr, c, dbg) ==
    CHOOSE out \in
      {CASE t.st = "tok" /\ t.kind = "BeginNode" ->
                [res |-> Item("node", t.name, <<>>, 0, Cursor(t.off, t.off), 0),
                 cur |-> Cursor(t.off, t.off)]
          [] t.st = "tok" /\ t.kind = "Prop" ->
                IF c.parent = 0
                THEN [res |-> NoItem("none"), cur |-> Cursor(t.off, c.parent)]
                ELSE [res |-> Item("prop", <<>>, t.val, t.nameoff, current_node_itr(c), 0),
                      cur |-> Cursor(t.off, c.parent)]
          [] t.st = "tok" /\ t.kind = "EndNode" ->
                next_devtree_item_parent_behind(b, addr, Cursor(t.off, 0), dbg)
          [] t.st = "tok" /\ t.kind = "Nop" ->
                next_devtree_item_parent_behind(b, addr, Cursor(t.off, c.parent), dbg)
          [] t.st = "panic" ->
                [res |-> NoItem("panic"), cur |-> Cursor(t.off, c.parent)]
          [] OTHER ->
                [res |-> NoItem("none"), cur |-> Cursor(t.off, c.parent)]
       : t \in {next_devtree_token(b, addr, c.offset, dbg)}} : TRUE

\* one call of next(): [res, cur].  The token parsed is bound once, as the
\* element of a singleton set.
RECURSIVE next_devtree_item(_, _, _, _)
next_devtree_item(b, addr, c, dbg) ==
    CHOOSE out \in
      {CASE t.st = "tok" /\ t.kind = "BeginNode" ->
                [res |-> Item("node", t.name, <<>>, 0, Cursor(t.off, c.offset), 0),
                 cur |-> Cursor(t.off, c.offset)]
          [] t.st = "tok" /\ t.kind = "Prop" ->
                IF c.parent = 0
                THEN [res |-> NoItem("none"), cur |-> Cursor(t.off, c.parent)]
                ELSE [res |-> Item("prop", <<>>, t.val, t.nameoff, current_node_itr(c), 0),
                      cur |-> Cursor(t.off, c.parent)]
          [] t.st = "tok" /\ t.kind = "EndNode" ->
                next_devtree_item(b, addr, Cursor(t.off, 0), dbg)
          [] t.st = "tok" /\ t.kind = "Nop" ->
                next_devtree_item(b, addr, Cursor(t.off, c.parent), dbg)
          [] t.st = "panic" ->
                [res |-> NoItem("panic"), cur |-> Cursor(t.off, c.parent)]
          [] OTHER ->
                [res |-> NoItem("none"), cur |-> Cursor(t.off, c.parent)]
       : t \in {next_devtree_token(b, addr, c.offset, dbg)}} : TRUE

RECURSIVE next_node(_, _, _, _)
next_node(b, addr, c, dbg) ==
    LET r == next_devtree_item(b, addr, c, dbg)
    IN  IF r.res.kind = "prop" THEN next_node(b, addr, r.cur, dbg) ELSE r

RECURSIVE next_prop(_, _, _, _)
next_prop(b, addr, c, dbg) ==
    LET r == next_devtree_item(b, addr, c, dbg)
    IN  IF r.res.kind = "node" THEN next_prop(b, addr, r.cur, dbg) ELSE r

\* next_node_prop that goes on to the properties of the nodes that follow
next_node_prop_any_node(b, addr, c, dbg) == next_prop(b, addr, c, dbg)

next_node_prop(b, addr, c, dbg) ==
    LET r == next_devtree_item(b, addr, c, dbg)
    IN  IF r.res.kind = "node" THEN [res |-> NoItem("none"), cur |-> r.cur] ELSE r

\* the four stepping methods of the cursor by name
Step(op, b, addr, c, dbg) ==
    CASE op = "next" -> next_devtree_item(b, addr, c, dbg)
      [] op = "next_node" -> next_node(b, addr, c, dbg)
      [] op = "next_prop" -> next_prop(b, addr, c, dbg)
      [] OTHER -> next_node_prop(b, addr, c, dbg)

IterOps == {"next", "next_node", "next_prop", "next_node_prop"}

(***************************************************************************)
(* Property readers and the search by compatible string.  Strings are     *)
(* kept as their bytes without the NUL; every byte of the inputs is ASCII, *)
(* so the UTF-8 validation of name() and get_str() always succeeds.        *)
(***************************************************************************)
COMPATIBLE == <<99, 111, 109, 112, 97, 116, 105, 98, 108, 101>>

\* the strings searched for: "a", "b"
CompatStrings == {<<97>>, <<98>>}

\* prop.name(): [ok, s]
get_prop_str(b, p) == read_bstring0(b, off_dt_strings(b).v + p.nameoff)

\* prop.get_str(): [ok, s]
get_str(p) == read_bstring0(p.val, 0)

\* the predicate handed to find_next, Ok(true) or not
is_compatible(b, p, s) ==
    /\ get_prop_str(b, p).ok
    /\ get_prop_str(b, p).s = COMPATIBLE
    /\ get_str(p).ok
    /\ get_str(p).s = s

\* The searches below bind each parsed item once, as the element of a
\* singleton set, and work on that value.

\* DevTreePropIter::find_next with that predicate: [res, cur]
RECURSIVE find_next(_, _, _, _, _)
find_next(b, addr, c, s, dbg) ==
    CHOOSE out \in
        {IF r.res.kind = "prop" /\ ~is_compatible(b, r.res, s)
         THEN find_next(b, addr, r.cur, s, dbg)
         ELSE r : r \in {next_prop(b, addr, c, dbg)}} : TRUE

\* prop.node() of the property found, or the None of the search
node_of_found(b, addr, p, dbg) ==
    IF p.kind = "prop" THEN next_node(b, addr, p.iter, dbg).res ELSE p

\* the search without the first step to the next node
find_next_compatible_node_no_advance(b, addr, c, s, dbg) ==
    CHOOSE out \in
        {node_of_found(b, addr, p.res, dbg) : p \in {find_next(b, addr, c, s, dbg)}} : TRUE

\* the search that looks at the properties of the next node only
find_next_compatible_node_own_props(b, addr, c, s, dbg) ==
    CHOOSE out \in
        {IF n.res.kind # "node" THEN n.res
         ELSE CHOOSE o \in
                {IF p.res.kind = "prop" /\ is_compatible(b, p.res, s)
                 THEN node_of_found(b, addr, p.res, dbg)
                 ELSE NoItem("none") : p \in {next_node_prop(b, addr, n.cur, dbg)}} : TRUE
         : n \in {next_node(b, addr, c, dbg)}} : TRUE

\* cursor.find_next_compatible_node(s): the node found, or none
find_next_compatible_node(b, addr, c, s, dbg) ==
    CHOOSE out \in
        {IF n.res.kind # "node" THEN n.res
         ELSE CHOOSE o \in
                {node_of_found(b, addr, p.res, dbg)
                 : p \in {find_next(b, addr, n.cur, s, dbg)}} : TRUE
         : n \in {next_node(b, addr, c, dbg)}} : TRUE

\* get_u32 that accepts an offset whose last byte is one past the value
get_u32_off_by_one(val, offset) ==
    LET r == read_be_u32(val \o <<0>>, offset)
    IN  IF r.ok THEN [st |-> "ok", v |-> U32(r.w)] ELSE [st |-> "InvalidOffset", v |-> 0]

\* get_u32(offset), get_phandle(offset): [st, v]
get_u32(val, offset) ==
    LET r == read_be_u32(val, offset)
    IN  IF r.ok THEN [st |-> "ok", v |-> U32(r.w)] ELSE [st |-> "InvalidOffset", v |-> 0]

\* get_u64(offset): [st, v], v the high and the low word
get_u64(val, offset) ==
    LET r == read_be_u64(val, offset)
    IN  IF r.ok THEN [st |-> "ok", v |-> <<U32(r.hi), U32(r.lo)>>]
        ELSE [st |-> "InvalidOffset", v |-> <<0, 0>>]

\* a slot of the list handed to get_strlist
None == [some |-> FALSE, s |-> <<>>]

Some(x) == [some |-> TRUE, s |-> x]

\* iter_str_list that counts the bytes of the value instead of its strings
iter_str_list_bytes(val, has, list, offset, count) ==
    [st |-> "ok", v |-> Len(val), list |-> list]

\* iter_str_list(list_opt) from offset and count on: [st, v, list]; has is
\* list_opt.is_some(), and a store past the end of the list panics
RECURSIVE iter_str_list(_, _, _, _, _)
iter_str_list(val, has, list, offset, count) ==
    IF offset = Len(val) THEN [st |-> "ok", v |-> count, list |-> list]
    ELSE LET g == read_bstring0(val, offset)
         IN  IF ~g.ok THEN [st |-> "ParseError", v |-> 0, list |-> list]
             ELSE IF has /\ count >= Len(list) THEN [st |-> "panic", v |-> 0, list |-> list]
             ELSE iter_str_list(val, has,
                                IF has THEN [list EXCEPT ![count + 1] = Some(g.s)] ELSE list,
                                offset + Len(g.s) + 1, count + 1)

\* the loop of TreeIterator::next_compatible_node: a property whose name or
\* whose string cannot be read ends the search with None
RECURSIVE scan_compatible(_, _, _, _, _)
scan_compatible(b, addr, c, s, dbg) ==
    CHOOSE out \in
        {IF r.res.kind # "prop" THEN r
         ELSE IF ~get_prop_str(b, r.res).ok THEN [res |-> NoItem("none"), cur |-> r.cur]
         ELSE IF get_prop_str(b, r.res).s # COMPATIBLE
         THEN scan_compatible(b, addr, r.cur, s, dbg)
         ELSE IF ~get_str(r.res).ok THEN [res |-> NoItem("none"), cur |-> r.cur]
         ELSE IF get_str(r.res).s = s
         THEN [res |-> node_of_found(b, addr, r.res, dbg), cur |-> r.cur]
         ELSE scan_compatible(b, addr, r.cur, s, dbg)
         : r \in {next_prop(b, addr, c, dbg)}} : TRUE

\* TreeIterator::next_compatible_node(s) on the cursor: [res, cur]
next_compatible_node(b, addr, c, s, dbg) ==
    CHOOSE out \in
        {IF n.res.kind # "node" THEN n ELSE scan_compatible(b, addr, n.cur, s, dbg)
         : n \in {next_node(b, addr, c, dbg)}} : TRUE

(***************************************************************************)
(* Reserve-map iterator (DevTreeReserveEntryIter).                         *)
(***************************************************************************)
ReserveIter_new(b) == off_mem_rsvmap(b).v

\* DevTree::ptr_at::<fdt_reserve_entry>
ptr_at_ok(b, offset) == ~(offset + SIZE_fdt_reserve_entry > Len(b))

\* next() that does not stop at the terminating entry
reserve_next_no_stop(b, offset) ==
    IF offset > totalsize(b).v
    THEN [res |-> NoItem("none"), off |-> offset]
    ELSE IF ~ptr_at_ok(b, offset)
    THEN [res |-> NoItem("panic"), off |-> offset]
    ELSE [res |-> Item("entry", <<>>, Slice(b, offset, offset + SIZE_fdt_reserve_entry),
                       0, Cursor(0, 0), 0),
          off |-> offset + SIZE_fdt_reserve_entry]

reserve_next(b, offset) ==
    IF offset > totalsize(b).v
    THEN [res |-> NoItem("none"), off |-> offset]
    ELSE IF ~ptr_at_ok(b, offset)
    THEN [res |-> NoItem("panic"), off |-> offset]
    ELSE LET e == Slice(b, offset, offset + SIZE_fdt_reserve_entry)
         IN  IF \A i \in 1..SIZE_fdt_reserve_entry : e[i] = 0
             THEN [res |-> NoItem("none"), off |-> offset]
             ELSE [res |-> Item("entry", <<>>, e, 0, Cursor(0, 0), 0),
                   off |-> offset + SIZE_fdt_reserve_entry]

(***************************************************************************)
(* Index builder (DTIBuilder, DevTreeIndex).  mem maps the address of      *)
(* every record written into the index buffer to the record; 0 is the     *)
(* null pointer.                                                           *)
(***************************************************************************)
DTINode(parent, name) ==
    [t |-> "node", parent |-> parent, first_child |-> 0, next |-> 0, name |-> name,
     num_props |-> 0, propbuf |-> <<>>, nameoff |-> 0]

DTIProp(propbuf, nameoff) ==
    [t |-> "prop", parent |-> 0, first_child |-> 0, next |-> 0, name |-> <<>>,
     num_props |-> 0, propbuf |-> propbuf, nameoff |-> nameoff]

\* ptr_in without the upper bound
ptr_in_unbounded(ib, ptr, size) ==
    ib.addr <= ptr

ptr_in(ib, ptr, size) ==
    /\ ib.addr + ib.len > ptr + size
    /\ ib.addr <= ptr

\* [ok, ptr]
aligned_ptr_in(ib, offset, size, align) ==
    LET p   == ib.addr + offset
        ptr == p + align_offset(p, align)
    IN  [ok |-> ptr_in(ib, ptr, size), ptr |-> ptr]

\* allocate_aligned_ptr that does not move front_off
allocate_aligned_ptr_in_place(ib, front_off, size, align) ==
    LET a == aligned_ptr_in(ib, front_off, size, align)
    IN  IF a.ok THEN [ok |-> TRUE, ptr |-> a.ptr, front_off |-> front_off]
        ELSE [ok |-> FALSE, ptr |-> 0, front_off |-> front_off]

\* [ok, ptr, front_off]
allocate_aligned_ptr(ib, front_off, size, align) ==
    LET a == aligned_ptr_in(ib, front_off, size, align)
    IN  IF a.ok THEN [ok |-> TRUE, ptr |-> a.ptr, front_off |-> a.ptr + size - ib.addr]
        ELSE [ok |-> FALSE, ptr |-> 0, front_off |-> front_off]

Builder(st, poff, cur_node, prev_new_node, front_off, in_node_header, root) ==
    [st |-> st, poff |-> poff, cur_node |-> cur_node, prev_new_node |-> prev_new_node,
     front_off |-> front_off, in_node_header |-> in_node_header, root |-> root]

Put(m, a, r) == [x \in DOMAIN m \cup {a} |-> IF x = a THEN r ELSE m[x]]

\* the pointer fix-ups of parsed_node once the new record is written
link_node(m, parent, prev_new_node, new_ptr) ==
    LET m1 == [m EXCEPT ![prev_new_node].next = new_ptr]
        m2 == IF m1[parent].next # 0
              THEN [m1 EXCEPT ![m1[parent].next].next = new_ptr]
              ELSE m1
        m3 == [m2 EXCEPT ![parent].next = new_ptr]
    IN  IF m3[parent].first_child = 0
        THEN [m3 EXCEPT ![parent].first_child = new_ptr]
        ELSE m3

\* [err, b, m]: err is "" or the error returned; b the builder, m the memory
parsed_node(ib, b, m, name) ==
    LET a      == allocate_aligned_ptr(ib, b.front_off, SizeOfNode, AlignOfNode)
        parent == b.cur_node
        m0     == Put(m, a.ptr, DTINode(parent, name))
    IN  IF ~a.ok
        THEN [err |-> "NotEnoughMemory", b |-> [b EXCEPT !.in_node_header = TRUE], m |-> m]
        ELSE [err |-> "",
              b |-> [b EXCEPT !.in_node_header = TRUE, !.front_off = a.front_off,
                              !.cur_node = a.ptr, !.prev_new_node = a.ptr],
              m |-> IF parent # 0 THEN link_node(m0, parent, b.prev_new_node, a.ptr) ELSE m0]

\* parsed_prop that stores the property without counting it on its node
parsed_prop_uncounted(ib, b, m, propbuf, nameoff) ==
    IF ~b.in_node_header THEN [err |-> "ParseError", b |-> b, m |-> m]
    ELSE LET a == allocate_aligned_ptr(ib, b.front_off, SizeOfProp, AlignOfNode)
         IN  IF ~a.ok THEN [err |-> "NotEnoughMemory", b |-> b, m |-> m]
             ELSE [err |-> "",
                   b |-> [b EXCEPT !.front_off = a.front_off],
                   m |-> Put(m, a.ptr, DTIProp(propbuf, nameoff))]

\* parsed_prop that accepts a property wherever a node is open
parsed_prop_any_place(ib, b, m, propbuf, nameoff) ==
    IF b.cur_node = 0 THEN [err |-> "ParseError", b |-> b, m |-> m]
    ELSE LET a == allocate_aligned_ptr(ib, b.front_off, SizeOfProp, AlignOfNode)
         IN  IF ~a.ok THEN [err |-> "NotEnoughMemory", b |-> b, m |-> m]
             ELSE [err |-> "",
                   b |-> [b EXCEPT !.front_off = a.front_off],
                   m |-> Put([m EXCEPT ![b.cur_node].num_props = @ + 1], a.ptr,
                             DTIProp(propbuf, nameoff))]

parsed_prop(ib, b, m, propbuf, nameoff) ==
    IF ~b.in_node_header THEN [err |-> "ParseError", b |-> b, m |-> m]
    ELSE LET a == allocate_aligned_ptr(ib, b.front_off, SizeOfProp, AlignOfNode)
         IN  IF ~a.ok THEN [err |-> "NotEnoughMemory", b |-> b, m |-> m]
             ELSE [err |-> "",
                   b |-> [b EXCEPT !.front_off = a.front_off],
                   m |-> Put([m EXCEPT ![b.cur_node].num_props = @ + 1], a.ptr,
                             DTIProp(propbuf, nameoff))]

\* parsed_end_node that leaves the node that ended as the open node
parsed_end_node_stay(b, m) ==
    IF b.cur_node = 0 THEN [err |-> "ParseError", b |-> b, m |-> m]
    ELSE [err |-> "", b |-> [b EXCEPT !.in_node_header = FALSE], m |-> m]

\* parsed_end_node that accepts an END_NODE while no node is open
parsed_end_node_lenient(b, m) ==
    IF b.cur_node = 0 THEN [err |-> "", b |-> [b EXCEPT !.in_node_header = FALSE], m |-> m]
    ELSE [err |-> "",
          b |-> [b EXCEPT !.cur_node = m[b.cur_node].parent, !.in_node_header = FALSE],
          m |-> m]

parsed_end_node(b, m) ==
    IF b.cur_node = 0 THEN [err |-> "ParseError", b |-> b, m |-> m]
    ELSE [err |-> "",
          b |-> [b EXCEPT !.cur_node = m[b.cur_node].parent, !.in_node_header = FALSE],
          m |-> m]

\* DevTreeParseIter::next: a token error ends the iteration like END does
parse_iter_next(bf, addr, off, dbg) ==
    LET t == next_devtree_token(bf, addr, off, dbg)
    IN  IF t.st = "err" THEN [t EXCEPT !.st = "end"] ELSE t

\* one round of the loop of init_builder on the token t the parse iterator
\* returned: [b, m]
init_builder_step(ib, b, m, t) ==
    LET b1 == [b EXCEPT !.poff = t.off]
    IN  CASE t.st = "panic" -> [b |-> [b1 EXCEPT !.st = "panic"], m |-> m]
          [] t.st = "end" -> [b |-> [b1 EXCEPT !.st = "ParseError"], m |-> m]
          [] t.kind = "BeginNode" ->
                LET r == parsed_node(ib, b1, m, t.name)
                IN  IF r.err # "" THEN [b |-> [r.b EXCEPT !.st = r.err], m |-> r.m]
                    ELSE [b |-> [r.b EXCEPT !.st = "loop", !.root = r.b.cur_node], m |-> r.m]
          [] t.kind = "Nop" -> [b |-> b1, m |-> m]
          [] OTHER -> [b |-> [b1 EXCEPT !.st = "ParseError"], m |-> m]

\* one round of the token loop of DevTreeIndex::new on the token t the parse
\* iterator returned: [b, m]
new_step(ib, b, m, t) ==
    LET b1 == [b EXCEPT !.poff = t.off]
        r == CASE t.kind = "BeginNode" -> parsed_node(ib, b1, m, t.name)
               [] t.kind = "Prop" -> parsed_prop(ib, b1, m, t.val, t.nameoff)
               [] t.kind = "EndNode" -> parsed_end_node(b1, m)
               [] OTHER -> [err |-> "", b |-> b1, m |-> m]
    IN  CASE t.st = "panic" -> [b |-> [b1 EXCEPT !.st = "panic"], m |-> m]
          [] t.st = "end" -> [b |-> [b1 EXCEPT !.st = "ok"], m |-> m]
          [] OTHER -> IF r.err # "" THEN [b |-> [r.b EXCEPT !.st = r.err], m |-> r.m]
                      ELSE [b |-> r.b, m |-> r.m]

\* DevTreeIndex::new from the builder b on: the token loops run to their end,
\* [b, m]
RECURSIVE build_from(_, _, _, _, _, _)
build_from(ib, bf, addr, dbg, b, m) ==
    IF b.st \notin {"init", "loop"} THEN [b |-> b, m |-> m]
    ELSE CHOOSE out \in
           {build_from(ib, bf, addr, dbg, r.b, r.m) :
              r \in {IF b.st = "init"
                     THEN init_builder_step(ib, b, m, parse_iter_next(bf, addr, b.poff, dbg))
                     ELSE new_step(ib, b, m, parse_iter_next(bf, addr, b.poff, dbg))}} : TRUE

\* DevTreeIndex::get_layout: [st, size, align]
RECURSIVE layout_from(_, _, _, _, _)
layout_from(bf, addr, c, dbg, size) ==
    LET r == next_devtree_item(bf, addr, c, dbg)
    IN  CASE r.res.kind = "node" -> layout_from(bf, addr, r.cur, dbg, size + SizeOfNode)
          [] r.res.kind = "prop" -> layout_from(bf, addr, r.cur, dbg, size + SizeOfProp)
          [] r.res.kind = "panic" -> [st |-> "panic", size |-> 0, align |-> 0]
          [] OTHER -> [st |-> "ok", size |-> size, align |-> AlignOfNode]

get_layout(bf, addr, dbg) == layout_from(bf, addr, DevTreeIter_new(bf), dbg, 0)

(***************************************************************************)
(* Indexed iterators (DevTreeIndexIter).  node = 0 is None.                *)
(***************************************************************************)
IndexIter(node, prop_idx, initial_node_returned) ==
    [node |-> node, prop_idx |-> prop_idx, initial_node_returned |-> initial_node_returned]

DevTreeIndexIter_new(root) == IndexIter(root, 0, FALSE)

from_node(node) == IndexIter(node, 0, TRUE)

\* #[derive(Clone)]: a copy of the fields; the index is shared by reference
DevTreeIndexIter_clone(c) == IndexIter(c.node, c.prop_idx, c.initial_node_returned)

prop_unchecked(node, idx) == node + SizeOfNode + idx * SizeOfProp

IndexNode(m, n) == Item("node", m[n].name, <<>>, 0, Cursor(0, 0), n)

IndexProp(m, n, p) == Item("prop", <<>>, m[p].propbuf, m[p].nameoff, Cursor(0, 0), n)

\* first_child().or(next())
next_dfs(m, n) == IF m[n].first_child # 0 THEN m[n].first_child ELSE m[n].next

next_sibling(m, n) ==
    IF m[n].next # 0 /\ m[m[n].next].parent = m[n].parent THEN m[n].next ELSE 0

\* one call of next(): [res, cur]
index_next(m, c) ==
    IF c.node = 0 THEN [res |-> NoItem("none"), cur |-> c]
    ELSE IF ~c.initial_node_returned
    THEN [res |-> IndexNode(m, c.node), cur |-> [c EXCEPT !.initial_node_returned = TRUE]]
    ELSE IF c.prop_idx < m[c.node].num_props
    THEN [res |-> IndexProp(m, c.node, prop_unchecked(c.node, c.prop_idx)),
          cur |-> [c EXCEPT !.prop_idx = @ + 1]]
    ELSE LET n == next_dfs(m, c.node)
         IN  [res |-> IF n # 0 THEN IndexNode(m, n) ELSE NoItem("none"),
              cur |-> [c EXCEPT !.prop_idx = 0, !.node = n]]

\* the loops of next_node and next_prop; a loop that has skipped more items
\* than there are records is in a cycle of the next pointers and never returns
RECURSIVE index_skip(_, _, _, _)
index_skip(m, c, skip, fuel) ==
    LET r == index_next(m, c)
    IN  IF r.res.kind # skip THEN r
        ELSE IF fuel = 0 THEN [res |-> NoItem("diverge"), cur |-> r.cur]
        ELSE index_skip(m, r.cur, skip, fuel - 1)

index_next_node(m, c) == index_skip(m, c, "prop", Cardinality(DOMAIN m))

index_next_prop(m, c) == index_skip(m, c, "node", Cardinality(DOMAIN m))

index_next_node_prop(m, c) ==
    LET r == index_next(m, c)
    IN  IF r.res.kind = "node" THEN [res |-> NoItem("none"), cur |-> r.cur] ELSE r

index_next_sibling(m, c) ==
    IF c.node = 0 THEN [res |-> NoItem("none"), cur |-> c]
    ELSE [res |-> IndexNode(m, c.node), cur |-> [c EXCEPT !.node = next_sibling(m, c.node)]]

IndexStep(o, m, c) ==
    CASE o = "next" -> index_next(m, c)
      [] o = "next_node" -> index_next_node(m, c)
      [] o = "next_prop" -> index_next_prop(m, c)
      [] o = "next_node_prop" -> index_next_node_prop(m, c)
      [] OTHER -> index_next_sibling(m, c)

IndexOps == {"next", "next_node", "next_prop", "next_node_prop", "next_sibling"}

(***************************************************************************)
(* State.                                                                  *)
(***************************************************************************)
VARIABLES
    debug,      \* the library was compiled with debug assertions
    src,        \* the input description the blob was encoded from (never read by the code)
    buf,        \* the device tree blob handed to the library
    dt,         \* result of DevTree::new: "unopened", "ok", an error or "panic"
    phase,      \* which object of the library the client is driving
    cur,        \* the unindexed cursor (DevTreeIter)
    rcur,       \* the offset of the reserve-map iterator
    ibuf,       \* the index buffer handed to DevTreeIndex::new: [addr, len]
    bld,        \* the DTIBuilder, the parse iterator's offset and the state of the build
    mem,        \* the records written into the index buffer
    icur,       \* the indexed cursor (DevTreeIndexIter)
    op,         \* the method last called on the live iterator
    res,        \* what that call returned
    hdr,        \* what the last function called on the raw buffer or on a property returned
    arg,        \* the argument of the last call: the string searched for, the offset read
    start,      \* the cursor the last search was called on
    hits,       \* what the client was given so far: node names, reserve entries, strings
    clone,      \* the clone of the cursor
    seen        \* what the clone of the cursor returned so far

vars == <<debug, src, buf, dt, phase, cur, rcur, ibuf, bld, mem, icur, op, res, hdr, arg, start, hits, clone, seen>>

IndexBufAddrs == {64, 68}

\* fn: the header function called, st: "ok", an error or "panic", v: the value
HdrResult(fn, st, v) == [fn |-> fn, st |-> st, v |-> v]

Init ==
    /\ debug \in BOOLEAN
    /\ src \in Inputs
    /\ buf = Encode(src)
    /\ dt = "unopened"
    /\ phase = "start"
    /\ cur = Cursor(0, 0)
    /\ rcur = 0
    /\ ibuf = [addr |-> 0, len |-> 0]
    /\ bld = Builder("idle", 0, 0, 0, 0, FALSE, 0)
    /\ mem = <<>>
    /\ icur = IndexIter(0, 0, FALSE)
    /\ op = "-"
    /\ res = NoItem("init")
    /\ hdr = HdrResult("-", "-", 0)
    /\ arg = <<>>
    /\ start = Cursor(0, 0)
    /\ hits = <<>>
    /\ clone = Cursor(0, 0)
    /\ seen = <<>>

\* DevTree::new(buf)
Open ==
    /\ phase = "start"
    /\ dt' = DevTree_new(buf, src.addr)
    /\ phase' = IF dt' = "ok" THEN "tree" ELSE "failed"
    /\ UNCHANGED <<clone, seen, arg, start, hits, hdr, debug, src, buf, cur, rcur, ibuf, bld, mem, icur, op, res>>

\* DevTree::verify_magic(buf) on the raw buffer
VerifyMagic ==
    /\ phase = "start"
    /\ hdr' = HdrResult("verify_magic", verify_magic(buf), 0)
    /\ phase' = "probed"
    /\ UNCHANGED <<clone, seen, arg, start, hits, debug, src, buf, dt, cur, rcur, ibuf, bld, mem, icur, op, res>>

\* DevTree::read_totalsize(buf) on the raw buffer
ReadTotalsize ==
    /\ phase = "start"
    /\ \E t \in {read_totalsize(buf, src.addr)} :
          hdr' = HdrResult("read_totalsize", t.st, t.v)
    /\ phase' = "sized"
    /\ UNCHANGED <<clone, seen, arg, start, hits, debug, src, buf, dt, cur, rcur, ibuf, bld, mem, icur, op, res>>

\* the documented use of read_totalsize: the caller cuts the buffer to the
\* size returned and hands that slice to DevTree::new
OpenResized ==
    /\ phase = "sized"
    /\ hdr.st = "ok"
    /\ hdr.v <= Len(buf)
    /\ buf' = Slice(buf, 0, hdr.v)
    /\ dt' = DevTree_new(buf', src.addr)
    /\ phase' = "resized"
    /\ UNCHANGED <<clone, seen, arg, start, hits, debug, src, cur, rcur, ibuf, bld, mem, icur, op, res, hdr>>

\* DevTree::items(): a fresh cursor at off_dt_struct
Items ==
    /\ phase = "tree"
    /\ phase' = "items"
    /\ cur' = DevTreeIter_new(buf)
    /\ UNCHANGED <<clone, seen, arg, start, hits, hdr, debug, src, buf, dt, rcur, ibuf, bld, mem, icur, op, res>>

\* one call of next(), next_node(), next_prop() or next_node_prop() on the cursor
IterStep ==
    /\ phase = "items"
    /\ res.kind # "panic"
    /\ \E o \in IterOps :
          LET r == Step(o, buf, src.addr, cur, debug)
          IN  /\ op' = o
              /\ res' = r.res
              /\ cur' = r.cur
    /\ UNCHANGED <<clone, seen, arg, start, hits, hdr, debug, src, buf, dt, phase, rcur, ibuf, bld, mem, icur>>

\* cursor.find_next_compatible_node(s) on a cursor at any position
FindNextCompatible ==
    /\ phase = "items"
    /\ res.kind # "panic"
    /\ \E s \in CompatStrings :
       \E r \in {find_next_compatible_node(buf, src.addr, cur, s, debug)} :
           /\ arg' = s
           /\ res' = r
    /\ op' = "find_next_compatible_node"
    /\ start' = cur
    /\ phase' = "found"
    /\ UNCHANGED <<clone, seen, debug, src, buf, dt, cur, rcur, ibuf, bld, mem, icur, hdr, hits>>

\* cursor.next_compatible_node(s), the step of TreeCompatibleNodeIter
NextCompatibleNode ==
    /\ phase = "items"
    /\ res.kind # "panic"
    /\ \E s \in CompatStrings :
       \E r \in {next_compatible_node(buf, src.addr, cur, s, debug)} :
           /\ arg' = s
           /\ res' = r.res
           /\ cur' = r.cur
    /\ op' = "next_compatible_node"
    /\ start' = cur
    /\ phase' = "found"
    /\ UNCHANGED <<clone, seen, debug, src, buf, dt, rcur, ibuf, bld, mem, icur, hdr, hits>>

\* DevTree::find_first_compatible_node(s)
FindFirstCompatible ==
    /\ phase = "tree"
    /\ \E s \in CompatStrings :
       \E r \in {find_next_compatible_node(buf, src.addr, DevTreeIter_new(buf), s, debug)} :
           /\ arg' = s
           /\ res' = r
    /\ op' = "find_first_compatible_node"
    /\ phase' = "first"
    /\ UNCHANGED <<clone, seen, start, debug, src, buf, dt, cur, rcur, ibuf, bld, mem, icur, hdr, hits>>

\* the loop of the documentation of DevTreeNode::find_next_compatible_node:
\* if let Some(mut cur) = devtree.root()
CompatFromRoot ==
    /\ phase = "tree"
    /\ \E r \in {next_node(buf, src.addr, DevTreeIter_new(buf), debug).res} :
           /\ r.kind = "node"
           /\ res' = r
           /\ cur' = r.iter
    /\ \E s \in CompatStrings : arg' = s
    /\ op' = "root"
    /\ phase' = "compat"
    /\ UNCHANGED <<clone, seen, start, debug, src, buf, dt, rcur, ibuf, bld, mem, icur, hdr, hits>>

\* while let Some(node) = cur.find_next_compatible_node(compat) { cur = node }
CompatLoop ==
    /\ phase = "compat"
    /\ res.kind = "node"
    /\ \E r \in {find_next_compatible_node(buf, src.addr, cur, arg, debug)} :
           /\ res' = r
           /\ cur' = IF r.kind = "node" THEN r.iter ELSE cur
           /\ hits' = IF r.kind = "node" THEN Append(hits, r.name) ELSE hits
    /\ op' = "find_next_compatible_node"
    /\ UNCHANGED <<clone, seen, start, debug, src, buf, dt, phase, rcur, ibuf, bld, mem, icur, hdr, arg>>

\* DevTree::reserved_entries()
ReservedEntries ==
    /\ phase = "tree"
    /\ phase' = "rsv"
    /\ rcur' = ReserveIter_new(buf)
    /\ UNCHANGED <<clone, seen, arg, start, hits, hdr, debug, src, buf, dt, cur, ibuf, bld, mem, icur, op, res>>

\* one call of next() on the reserve-map iterator
ReserveStep ==
    /\ phase = "rsv"
    /\ res.kind # "panic"
    /\ \E r \in {reserve_next(buf, rcur)} :
           /\ op' = "next"
           /\ res' = r.res
           /\ rcur' = r.off
           /\ hits' = IF r.res.kind = "entry" THEN Append(hits, r.res.val) ELSE hits
    /\ UNCHANGED <<clone, seen, arg, start, hdr, debug, src, buf, dt, phase, cur, ibuf, bld, mem, icur>>

\* DevTreeIndex::new(fdt, buf) is entered with an index buffer sized from
\* get_layout: one byte short, exact, or with the slack the tests add
BuildStart ==
    /\ phase = "tree"
    /\ LET l == get_layout(buf, src.addr, debug)
       IN  /\ l.st = "ok"
           /\ \E a \in IndexBufAddrs, n \in {l.size - 1, l.size, l.size + l.align} :
                 /\ n >= 0
                 /\ ibuf' = [addr |-> a, len |-> n]
    /\ phase' = "build"
    /\ bld' = Builder("init", off_dt_struct(buf).v, 0, 0, 0, FALSE, 0)
    /\ UNCHANGED <<clone, seen, arg, start, hits, hdr, debug, src, buf, dt, cur, rcur, mem, icur, op, res>>

\* one token of init_builder or of the loop of DevTreeIndex::new
BuildStep ==
    /\ phase = "build"
    /\ bld.st \in {"init", "loop"}
    /\ \E t \in {parse_iter_next(buf, src.addr, bld.poff, debug)} :
       \E r \in {IF bld.st = "init" THEN init_builder_step(ibuf, bld, mem, t)
                                   ELSE new_step(ibuf, bld, mem, t)} :
           /\ bld' = r.b
           /\ mem' = r.m
    /\ UNCHANGED <<clone, seen, arg, start, hits, hdr, debug, src, buf, dt, phase, cur, rcur, ibuf, icur, op, res>>

\* DevTreeIndex::items() on the built index
IndexItems ==
    /\ phase = "build"
    /\ bld.st = "ok"
    /\ phase' = "index"
    /\ icur' = DevTreeIndexIter_new(bld.root)
    /\ UNCHANGED <<clone, seen, arg, start, hits, hdr, debug, src, buf, dt, cur, rcur, ibuf, bld, mem, op, res>>

\* node.props() or node.siblings() on the node handle just returned
FromNode ==
    /\ phase = "index"
    /\ res.kind = "node"
    /\ icur' = from_node(res.node)
    /\ op' = "-"
    /\ res' = NoItem("init")
    /\ UNCHANGED <<clone, seen, arg, start, hits, hdr, debug, src, buf, dt, phase, cur, rcur, ibuf, bld, mem>>

\* one call of a stepping method on the indexed cursor
IndexIterStep ==
    /\ phase = "index"
    /\ res.kind \notin {"panic", "diverge"}
    /\ \E o \in IndexOps :
          LET r == IndexStep(o, mem, icur)
          IN  /\ op' = o
              /\ res' = r.res
              /\ icur' = r.cur
    /\ UNCHANGED <<clone, seen, arg, start, hits, hdr, debug, src, buf, dt, phase, cur, rcur, ibuf, bld, mem>>

Next ==
    \/ Open
    \/ VerifyMagic
    \/ ReadTotalsize
    \/ OpenResized
    \/ Items
    \/ IterStep
    \/ FindNextCompatible
    \/ NextCompatibleNode
    \/ FindFirstCompatible
    \/ CompatFromRoot
    \/ CompatLoop
    \/ ReservedEntries
    \/ ReserveStep
    \/ BuildStart
    \/ BuildStep
    \/ IndexItems
    \/ FromNode
    \/ IndexIterStep

Spec == Init /\ [][Next]_vars

(***************************************************************************)
(* A client that opens a tree and builds the index from it.                *)
(***************************************************************************)
NextBuild == Open \/ BuildStart \/ BuildStep

SpecBuild == Init /\ [][NextBuild]_vars

(***************************************************************************)
(* A client that goes on calling the stepping methods of the unindexed     *)
(* cursor: a call that can be made is made.                                *)
(***************************************************************************)
\* the blobs with a fault and the trees with string properties
InitIter == Init /\ src \in FaultInputs \cup CompatInputs

NextIter == Open \/ Items \/ IterStep

SpecIter == InitIter /\ [][NextIter]_vars /\ WF_vars(IterStep)

(***************************************************************************)
(* Clones of the cursors.  The client clones a cursor at any position and  *)
(* then calls next() on the original and on the clone in any order, each   *)
(* up to its first None.                                                   *)
(***************************************************************************)
InitClone == Init /\ src \in TreeInputs /\ ~debug

Ended(sq) == sq # <<>> /\ sq[Len(sq)].kind \notin {"node", "prop"}

\* let mut c = iter.clone() on the unindexed cursor
CloneIter ==
    /\ phase = "items"
    /\ res.kind # "panic"
    /\ clone' = DevTreeIter_clone(cur)
    /\ phase' = "cloned"
    /\ UNCHANGED <<seen, arg, start, hits, hdr, debug, src, buf, dt, cur, rcur, ibuf, bld, mem,
                   icur, op, res>>

\* next() on the original after the clone was taken
OrigNext ==
    /\ phase = "cloned"
    /\ ~Ended(hits)
    /\ \E r \in {next_devtree_item(buf, src.addr, cur, debug)} :
           /\ cur' = r.cur
           /\ res' = r.res
           /\ hits' = Append(hits, r.res)
    /\ op' = "next"
    /\ UNCHANGED <<clone, seen, arg, start, hdr, debug, src, buf, dt, phase, rcur, ibuf, bld,
                   mem, icur>>

\* next() on the clone
CloneNext ==
    /\ phase = "cloned"
    /\ ~Ended(seen)
    /\ \E r \in {next_devtree_item(buf, src.addr, clone, debug)} :
           /\ clone' = r.cur
           /\ seen' = Append(seen, r.res)
    /\ UNCHANGED <<arg, start, hits, hdr, debug, src, buf, dt, phase, cur, rcur, ibuf, bld, mem,
                   icur, op, res>>

\* let mut c = iter.clone() on the indexed cursor
CloneIndexIter ==
    /\ phase = "index"
    /\ res.kind \notin {"panic", "diverge"}
    /\ clone' = DevTreeIndexIter_clone(icur)
    /\ phase' = "icloned"
    /\ UNCHANGED <<seen, arg, start, hits, hdr, debug, src, buf, dt, cur, rcur, ibuf, bld, mem,
                   icur, op, res>>

\* next() on the original indexed cursor after the clone was taken; the
\* calls are bounded by the number of records of the index
IndexOrigNext ==
    /\ phase = "icloned"
    /\ ~Ended(hits)
    /\ Len(hits) <= Cardinality(DOMAIN mem)
    /\ \E r \in {index_next(mem, icur)} :
           /\ icur' = r.cur
           /\ res' = r.res
           /\ hits' = Append(hits, r.res)
    /\ op' = "next"
    /\ UNCHANGED <<clone, seen, arg, start, hdr, debug, src, buf, dt, phase, cur, rcur, ibuf,
                   bld, mem>>

\* next() on the clone of the indexed cursor
IndexCloneNext ==
    /\ phase = "icloned"
    /\ ~Ended(seen)
    /\ Len(seen) <= Cardinality(DOMAIN mem)
    /\ \E r \in {index_next(mem, clone)} :
           /\ clone' = r.cur
           /\ seen' = Append(seen, r.res)
    /\ UNCHANGED <<arg, start, hits, hdr, debug, src, buf, dt, phase, cur, rcur, ibuf, bld, mem,
                   icur, op, res>>

NextClone ==
    \/ Open
    \/ Items
    \/ IterStep
    \/ CloneIter
    \/ OrigNext
    \/ CloneNext
    \/ BuildStart
    \/ BuildStep
    \/ IndexItems
    \/ IndexIterStep
    \/ CloneIndexIter
    \/ IndexOrigNext
    \/ IndexCloneNext

SpecClone == InitClone /\ [][NextClone]_vars

(***************************************************************************)
(* The token parser called token by token, as DevTreeParseIter calls it:  *)
(* on the buffer of an opened tree, from off_dt_struct on, each call at    *)
(* the offset the call before left.  res holds the token returned.         *)
(***************************************************************************)
\* DevTreeParseIter::new(fdt)
ParseIterNew ==
    /\ phase = "tree"
    /\ phase' = "toks"
    /\ cur' = Cursor(off_dt_struct(buf).v, 0)
    /\ UNCHANGED <<clone, seen, arg, start, hits, hdr, debug, src, buf, dt, rcur, ibuf, bld, mem,
                   icur, op, res>>

\* next_devtree_token(fdt.buf(), &mut offset); the caller goes on after a
\* token and after an error, and stops at END and at a panic
NextDevtreeToken ==
    /\ phase = "toks"
    /\ op = "next_devtree_token" => res.st \in {"tok", "err"}
    /\ \E t \in {next_devtree_token(buf, src.addr, cur.offset, debug)} :
           /\ res' = t
           /\ cur' = Cursor(t.off, 0)
    /\ start' = cur
    /\ op' = "next_devtree_token"
    /\ UNCHANGED <<clone, seen, arg, hits, hdr, debug, src, buf, dt, phase, rcur, ibuf, bld, mem,
                   icur>>

NextTok ==
    \/ Open
    \/ ParseIterNew
    \/ NextDevtreeToken

SpecTok == Init /\ [][NextTok]_vars

(***************************************************************************)
(* The readers of a property's value, applied to a property handle whose  *)
(* value is drawn from PropInputs.                                         *)
(***************************************************************************)
InitProp ==
    /\ debug = FALSE
    /\ src \in PropInputs
    /\ buf = <<>>
    /\ dt = "ok"
    /\ phase = "prop"
    /\ cur = Cursor(0, 0)
    /\ rcur = 0
    /\ ibuf = [addr |-> 0, len |-> 0]
    /\ bld = Builder("idle", 0, 0, 0, 0, FALSE, 0)
    /\ mem = <<>>
    /\ icur = IndexIter(0, 0, FALSE)
    /\ op = "-"
    /\ res = Item("prop", <<>>, PropValueOf(src), 0, Cursor(0, 0), 0)
    /\ hdr = HdrResult("-", "-", 0)
    /\ arg = <<>>
    /\ start = Cursor(0, 0)
    /\ hits = <<>>
    /\ clone = Cursor(0, 0)
    /\ seen = <<>>

\* prop.get_u32(offset)
GetU32 ==
    /\ phase = "prop"
    /\ \E o \in 0..MaxOffset :
       \E r \in {get_u32(res.val, o)} :
           /\ arg' = <<o>>
           /\ hdr' = HdrResult("get_u32", r.st, r.v)
    /\ phase' = "read"
    /\ UNCHANGED <<clone, seen, debug, src, buf, dt, cur, rcur, ibuf, bld, mem, icur, op, res, start, hits>>

\* prop.get_u64(offset)
GetU64 ==
    /\ phase = "prop"
    /\ \E o \in 0..MaxOffset :
       \E r \in {get_u64(res.val, o)} :
           /\ arg' = <<o>>
           /\ hdr' = HdrResult("get_u64", r.st, r.v)
    /\ phase' = "read"
    /\ UNCHANGED <<clone, seen, debug, src, buf, dt, cur, rcur, ibuf, bld, mem, icur, op, res, start, hits>>

\* prop.get_phandle(offset)
GetPhandle ==
    /\ phase = "prop"
    /\ \E o \in 0..MaxOffset :
       \E r \in {get_u32(res.val, o)} :
           /\ arg' = <<o>>
           /\ hdr' = HdrResult("get_phandle", r.st, r.v)
    /\ phase' = "read"
    /\ UNCHANGED <<clone, seen, debug, src, buf, dt, cur, rcur, ibuf, bld, mem, icur, op, res, start, hits>>

\* prop.get_str_count()
GetStrCount ==
    /\ phase = "prop"
    /\ \E r \in {iter_str_list(res.val, FALSE, <<>>, 0, 0)} :
           hdr' = HdrResult("get_str_count", r.st, r.v)
    /\ phase' = "read"
    /\ UNCHANGED <<clone, seen, debug, src, buf, dt, cur, rcur, ibuf, bld, mem, icur, op, res, arg, start, hits>>

\* prop.get_strlist(list) with a list of up to MaxStrs + 1 empty slots
GetStrList ==
    /\ phase = "prop"
    /\ \E n \in 0..(MaxStrs + 1) :
       \E r \in {iter_str_list(res.val, TRUE, [i \in 1..n |-> None], 0, 0)} :
           /\ hdr' = HdrResult("get_strlist", r.st, r.v)
           /\ hits' = r.list
    /\ phase' = "read"
    /\ UNCHANGED <<clone, seen, debug, src, buf, dt, cur, rcur, ibuf, bld, mem, icur, op, res, arg, start>>

NextProp ==
    \/ GetU32
    \/ GetU64
    \/ GetPhandle
    \/ GetStrCount
    \/ GetStrList

SpecProp == InitProp /\ [][NextProp]_vars

(***************************************************************************)
(* Reference reading of the input: what the token list means, independent  *)
(* of the code.                                                            *)
(***************************************************************************)
\* ts is a well-formed struct block: one root, balanced, properties only in
\* a node's header, END last
RECURSIVE WFToks(_, _, _, _)
WFToks(ts, depth, inHeader, roots) ==
    IF ts = <<>> THEN FALSE
    ELSE LET t == Head(ts)
             r == Tail(ts)
         IN  CASE t = "X" -> r = <<>> /\ depth = 0 /\ roots = 1
               [] t = "B" -> /\ (depth > 0 \/ roots = 0)
                             /\ WFToks(r, depth + 1, TRUE, IF depth = 0 THEN roots + 1 ELSE roots)
               [] t = "P" \/ t \in StrProps -> inHeader /\ WFToks(r, depth, inHeader, roots)
               [] t = "E" -> depth > 0 /\ WFToks(r, depth - 1, FALSE, roots)
               [] t = "N" -> WFToks(r, depth, inHeader, roots)
               [] OTHER   -> FALSE

PlainHeader(inp) ==
    /\ inp.magic /\ inp.dTotal = 0 /\ inp.dRsv = 0 /\ inp.dStruct = 0
    /\ inp.cut = 0 /\ inp.addr = 0 /\ inp.term

WellFormed(inp) == PlainHeader(inp) /\ WFToks(inp.toks, 0, FALSE, 0)

Count(ts, t) == Cardinality({i \in 1..Len(ts) : ts[i] = t})

\* the items of a well-formed token list in source order; a property names
\* the node it belongs to
RECURSIVE ExpItems(_, _, _, _)
ExpItems(ts, nb, np, open) ==
    IF ts = <<>> THEN <<>>
    ELSE LET t == Head(ts)
             r == Tail(ts)
         IN  CASE t = "B" -> <<[kind |-> "node", name |-> NodeName(nb + 1), val |-> <<>>,
                                nameoff |-> 0]>>
                             \o ExpItems(r, nb + 1, np, NodeName(nb + 1))
               [] t = "P" -> <<[kind |-> "prop", name |-> open, val |-> PropVal(np + 1),
                                nameoff |-> PropNameOff(np + 1)]>>
                             \o ExpItems(r, nb, np + 1, open)
               [] t \in StrProps ->
                             <<[kind |-> "prop", name |-> open, val |-> StrPropVal(t),
                                nameoff |-> StrPropNameOff(t)]>>
                             \o ExpItems(r, nb, np, open)
               [] OTHER   -> ExpItems(r, nb, np, open)

(***************************************************************************)
(* What a client that drains an iterator collects.                         *)
(***************************************************************************)
\* prop.node() that hands out the snapshot without parsing the node again
prop_node_unparsed(b, addr, p) == Item("node", <<>>, <<>>, 0, p.iter, 0)

\* the node that prop.node() re-parses from the property's cursor snapshot
prop_node(b, addr, p) == next_node(b, addr, p.iter, debug).res

BaseView(b, addr, x) ==
    [kind |-> x.kind,
     name |-> IF x.kind = "prop" THEN prop_node(b, addr, x).name ELSE x.name,
     val |-> x.val, nameoff |-> x.nameoff]

IndexView(m, x) ==
    [kind |-> x.kind,
     name |-> IF x.kind = "prop" THEN m[x.node].name ELSE x.name,
     val |-> x.val, nameoff |-> x.nameoff]

\* the items method o of the unindexed cursor c yields up to its first None
RECURSIVE BaseDrain(_, _, _, _)
BaseDrain(b, addr, c, o) ==
    LET r == Step(o, b, addr, c, debug)
    IN  IF r.res.kind \in {"node", "prop"}
        THEN <<BaseView(b, addr, r.res)>> \o BaseDrain(b, addr, r.cur, o)
        ELSE <<>>

\* the first fuel items method o of the indexed cursor c yields up to its
\* first None
RECURSIVE IndexDrain(_, _, _, _)
IndexDrain(m, c, o, fuel) ==
    LET r == IndexStep(o, m, c)
    IN  IF r.res.kind \in {"node", "prop"} /\ fuel > 0
        THEN <<IndexView(m, r.res)>> \o IndexDrain(m, r.cur, o, fuel - 1)
        ELSE <<>>

Built == phase \in {"build", "index"} /\ bld.st = "ok"

NodeAddrs == {a \in DOMAIN mem : mem[a].t = "node"}

\* the i-th node record written (records are written in BEGIN_NODE order)
RECURSIVE NthAddr(_, _)
NthAddr(S, i) ==
    LET a == CHOOSE x \in S : \A y \in S : x <= y
    IN  IF i = 1 THEN a ELSE NthAddr(S \ {a}, i - 1)

\* the cursor snapshot held by the i-th node the unindexed engine yields
RECURSIVE NthBaseNode(_, _, _, _)
NthBaseNode(b, addr, c, i) ==
    LET r == next_node(b, addr, c, debug)
    IN  IF i = 1 THEN r.res ELSE NthBaseNode(b, addr, r.cur, i - 1)

(***************************************************************************)
(* Claims.                                                                 *)
(***************************************************************************)
Fuel == Len(buf)

\* C1: for a well-formed tree and the index built from it, the unindexed
\* node iterator and the indexed node iterator produce the same sequence of
\* node names, in length and position by position.
C1_SameNodeNames ==
    (Built /\ WellFormed(src)) =>
        BaseDrain(buf, src.addr, DevTreeIter_new(buf), "next_node")
            = IndexDrain(mem, DevTreeIndexIter_new(bld.root), "next_node", Fuel)

\* C2: for a well-formed tree and the index built from it, every node has
\* the same number of properties in both engines and its k-th property has
\* the same value and name offset in both.  Evaluated when the build ends:
\* the index is not written afterwards.
C2_SameProps ==
    (Built /\ phase = "build" /\ WellFormed(src)) =>
        /\ Cardinality(NodeAddrs)
             = Len(BaseDrain(buf, src.addr, DevTreeIter_new(buf), "next_node"))
        /\ \A i \in 1..Cardinality(NodeAddrs) :
              LET n  == NthAddr(NodeAddrs, i)
                  bn == NthBaseNode(buf, src.addr, DevTreeIter_new(buf), i)
                  bp == BaseDrain(buf, src.addr, bn.iter, "next_node_prop")
                  ip == IndexDrain(mem, from_node(n), "next_node_prop", Fuel)
              IN  /\ bn.name = mem[n].name
                  /\ Len(bp) = mem[n].num_props
                  /\ Len(ip) = mem[n].num_props
                  /\ \A k \in 1..Len(bp) :
                        /\ bp[k].val = ip[k].val
                        /\ bp[k].nameoff = ip[k].nameoff
                        /\ mem[prop_unchecked(n, k - 1)].propbuf = bp[k].val
                        /\ mem[prop_unchecked(n, k - 1)].nameoff = bp[k].nameoff

C2_Witness ==
    /\ Built /\ phase = "build" /\ WellFormed(src)
    /\ \E n \in NodeAddrs : mem[n].num_props >= 2
    /\ \E n \in NodeAddrs : mem[n].parent # 0 /\ mem[n].num_props >= 1

\* C3: once a call of next() on an iterator has returned None, every later
\* call of next() on that iterator returns no item; stated for well-formed
\* blobs and a build without debug assertions.
C3_NoneIsFinal ==
    [][(WellFormed(src) /\ ~debug /\ phase' = phase /\ op' = op /\ res.kind = "none")
          => res'.kind \notin {"node", "prop", "entry"}]_vars

\* C4: no operation panics, whatever the buffer; stated for a build without
\* debug assertions and for blobs that meet the documented requirements of
\* DevTree::new (aligned, complete header, length equal to totalsize).
C4_NoPanic ==
    (~debug /\ src.addr = 0 /\ src.cut = 0 /\ src.dTotal = 0) =>
        /\ dt # "panic"
        /\ res.kind # "panic"
        /\ bld.st # "panic"

\* C5: on the index of a well-formed tree the indexed item iterator yields
\* every node once in BEGIN_NODE order, each followed by its own properties
\* in order, and then returns None.
C5_IndexDfsItems ==
    (Built /\ WellFormed(src)) =>
        IndexDrain(mem, DevTreeIndexIter_new(bld.root), "next", Fuel)
            = ExpItems(src.toks, 0, 0, <<>>)

\* C6: in a completed index N.next is N's next sibling when N has one, and
\* when N is the last child of its parent N.next is the node that follows
\* the parent's subtree in DFS order (null when there is none).
NextSiblingOf(n) ==
    LET later == {a \in NodeAddrs : a > n /\ mem[a].parent = mem[n].parent}
    IN  IF mem[n].parent = 0 \/ later = {} THEN 0
        ELSE CHOOSE a \in later : \A y \in later : a <= y

RECURSIVE AfterSubtree(_)
AfterSubtree(n) ==
    IF NextSiblingOf(n) # 0 THEN NextSiblingOf(n)
    ELSE IF mem[n].parent = 0 THEN 0
    ELSE AfterSubtree(mem[n].parent)

C6_NextPointer ==
    (Built /\ WellFormed(src)) =>
        \A n \in NodeAddrs :
            /\ NextSiblingOf(n) # 0 => mem[n].next = NextSiblingOf(n)
            /\ (NextSiblingOf(n) = 0 /\ mem[n].parent # 0)
                  => mem[n].next = AfterSubtree(mem[n].parent)

\* C7: get_layout returns NodeCount*sizeof(Node) + PropCount*sizeof(Prop)
\* and align(Node), and the build of a well-formed tree into an aligned
\* buffer of exactly that size succeeds.
C7_ExactLayout ==
    (phase = "build" /\ WellFormed(src)) =>
        LET l == get_layout(buf, src.addr, debug)
        IN  /\ l.st = "ok"
            /\ l.size = Count(src.toks, "B") * SizeOfNode + Count(src.toks, "P") * SizeOfProp
            /\ l.align = AlignOfNode
            /\ (ibuf.len = l.size /\ ibuf.addr % l.align = 0 /\ bld.st \notin {"init", "loop"})
                  => bld.st = "ok"

\* C8: the build of a well-formed tree with at least one node into an index
\* buffer shorter than the size get_layout returns ends with NotEnoughMemory.
C8_ShortBuffer ==
    (phase = "build" /\ WellFormed(src) /\ bld.st \notin {"init", "loop"}
        /\ ibuf.len < get_layout(buf, src.addr, debug).size)
            => bld.st = "NotEnoughMemory"

C8_Witness ==
    /\ phase = "build" /\ WellFormed(src)
    /\ bld.st = "NotEnoughMemory"
    /\ ibuf.len = get_layout(buf, src.addr, debug).size - 1
    /\ Cardinality(DOMAIN mem) >= 2

\* C9: on every tree that DevTree::new returns, totalsize() <= buf.len.
C9_TotalsizeFits ==
    dt = "ok" => totalsize(buf).v <= Len(buf)

\* C10: DevTree::new returns a tree only if totalsize >= buf.len and
\* off_mem_rsvmap and off_dt_struct are multiples of 4; when the header was
\* read and one of the three fails it returns ParseError.
HeaderChecks(b) ==
    /\ totalsize(b).v >= Len(b)
    /\ off_mem_rsvmap(b).v % 4 = 0
    /\ off_dt_struct(b).v % 4 = 0

C10_OpenChecks ==
    /\ dt = "ok" =>
          /\ off_mem_rsvmap(buf).st = "ok" /\ off_dt_struct(buf).st = "ok"
          /\ HeaderChecks(buf)
    /\ (dt # "unopened" /\ read_totalsize(buf, src.addr).st = "ok"
          /\ off_mem_rsvmap(buf).st = "ok" /\ ~HeaderChecks(buf))
             => dt = "ParseError"

C10_Witness ==
    /\ dt = "ParseError"
    /\ read_totalsize(buf, src.addr).st = "ok"
    /\ totalsize(buf).v >= Len(buf)
    /\ off_mem_rsvmap(buf).v % 4 = 0
    /\ off_dt_struct(buf).v % 4 # 0

\* C11: verify_magic returns InvalidMagicNumber exactly when the first four
\* bytes differ from the magic and Ok when they are the magic; neither
\* read_totalsize nor DevTree::new returns Ok on a buffer with a wrong magic.
HasMagic(b) == Len(b) >= SIZE_u32 /\ Slice(b, 0, SIZE_u32) = FDT_MAGIC

C11_MagicFirst ==
    /\ (hdr.fn = "verify_magic" /\ Len(buf) >= SIZE_u32) =>
          /\ hdr.st = "InvalidMagicNumber" <=> ~HasMagic(buf)
          /\ hdr.st = "ok" <=> HasMagic(buf)
    /\ (hdr.fn = "read_totalsize" /\ ~HasMagic(buf)) => hdr.st # "ok"
    /\ (dt # "unopened" /\ ~HasMagic(buf)) => dt # "ok"

C11_Witness ==
    /\ hdr.fn = "verify_magic" /\ hdr.st = "InvalidMagicNumber"
    /\ Len(buf) >= MIN_HEADER_SIZE

\* C12 as stated: read_totalsize returns ParseError whenever the buffer is
\* shorter than MIN_HEADER_SIZE or its address is not 4-byte aligned, and
\* returns the totalsize only when both requirements hold; stated for buffers
\* that begin with the magic.
C12_TotalsizeRequirements ==
    (hdr.fn = "read_totalsize" /\ HasMagic(buf)) =>
        /\ (Len(buf) < MIN_HEADER_SIZE \/ ~is_aligned(src.addr)) => hdr.st = "ParseError"
        /\ hdr.st = "ok" => (Len(buf) >= MIN_HEADER_SIZE /\ is_aligned(src.addr))

\* C12 amended: read_totalsize fails its alignment assertion when the address
\* of the buffer is not 4-byte aligned; on an aligned buffer it returns
\* ParseError when the magic or the totalsize word is not wholly inside the
\* buffer (fewer than 4 bytes, or the magic and fewer than 8 bytes),
\* InvalidMagicNumber on a wrong magic, and otherwise the totalsize word,
\* whether or not the buffer holds MIN_HEADER_SIZE bytes.
C12_TotalsizeActual ==
    hdr.fn = "read_totalsize" =>
        IF ~is_aligned(src.addr) THEN hdr.st = "panic"
        ELSE IF Len(buf) < SIZE_u32 THEN hdr.st = "ParseError"
        ELSE IF ~HasMagic(buf) THEN hdr.st = "InvalidMagicNumber"
        ELSE IF Len(buf) < 2 * SIZE_u32 THEN hdr.st = "ParseError"
        ELSE hdr.st = "ok" /\ hdr.v = U32(Slice(buf, SIZE_u32, 2 * SIZE_u32))

C12_Witness ==
    /\ hdr.fn = "read_totalsize" /\ hdr.st = "ok"
    /\ Len(buf) < MIN_HEADER_SIZE

\* C13: for an aligned buffer that holds a device tree (valid magic, aligned
\* block offsets, length >= totalsize), cutting the buffer to the size
\* read_totalsize returns and opening that slice succeeds, and totalsize()
\* of the tree is the length of the slice.
HoldsDevTree(inp) ==
    /\ inp.magic /\ inp.addr = 0 /\ inp.cut = 0
    /\ inp.dRsv % 4 = 0 /\ inp.dStruct % 4 = 0
    /\ inp.dTotal <= 0

C13_ResizeThenOpen ==
    (phase = "resized" /\ HoldsDevTree(src)) =>
        /\ dt = "ok"
        /\ totalsize(buf).st = "ok"
        /\ totalsize(buf).v = Len(buf)

C13_Witness ==
    /\ phase = "resized" /\ HoldsDevTree(src) /\ dt = "ok"
    /\ src.dTotal < 0
    /\ Len(buf) < Len(Encode(src))

(***************************************************************************)
(* The search by compatible string.                                        *)
(***************************************************************************)
\* the node begun last at the i-th token (0 before the root)
NodeOfTok(ts, i) == Count(SubSeq(ts, 1, i), "B")

\* the k-th node has a property named "compatible" whose first string is s:
\* C holds "a", D holds "b" first; P holds no string and Q is named "x"
Matches(ts, k, s) ==
    \E i \in 1..Len(ts) :
        /\ NodeOfTok(ts, i) = k
        /\ \/ ts[i] = "C" /\ s = <<97>>
           \/ ts[i] = "D" /\ s = <<98>>

\* the first matching node after the k-th, 0 when there is none
FirstMatchAfter(ts, k, s) ==
    LET M == {j \in (k + 1)..Count(ts, "B") : Matches(ts, j, s)}
    IN  IF M = {} THEN 0 ELSE CHOOSE j \in M : \A x \in M : j <= x

\* the offset of the i-th token in the buffer: the struct block stands behind
\* the header and the reservation map, whatever off_dt_struct says
TokOff(inp, b, i) ==
    MIN_HEADER_SIZE + Len(RsvMap(inp.nrsv, inp.term)) + Len(PostMap(inp.post))
        + Len(EncToks(SubSeq(inp.toks, 1, i - 1), 0, 0))

\* the node a cursor at offset off is in: the last node begun before off
CurNode(inp, b, off) ==
    Cardinality({i \in 1..Len(inp.toks) : inp.toks[i] = "B" /\ TokOff(inp, b, i) < off})

\* res is the j-th node, or none when j = 0
IsNthNode(r, j) ==
    IF j = 0 THEN r.kind = "none" ELSE r.kind = "node" /\ r.name = NodeName(j)

\* C14: on a well-formed tree and in a build without debug assertions, from
\* any cursor position and for any string s, the search for the next
\* compatible node (find_next_compatible_node of the cursor, and
\* next_compatible_node of the shared traversal trait) returns the first node
\* in document order, among the nodes strictly after the cursor's current
\* node, that owns a property named "compatible" whose first string is s,
\* and None exactly when there is no such node.
C14_FindNext ==
    (phase = "found" /\ WellFormed(src) /\ ~debug) =>
        IsNthNode(res, FirstMatchAfter(src.toks, CurNode(src, buf, start.offset), arg))

\* the names of the matching nodes after the root, in document order
RECURSIVE MatchesFrom(_, _, _)
MatchesFrom(ts, k, s) ==
    IF k > Count(ts, "B") THEN <<>>
    ELSE (IF Matches(ts, k, s) THEN <<NodeName(k)>> ELSE <<>>) \o MatchesFrom(ts, k + 1, s)

IsPrefix(a, b) == Len(a) <= Len(b) /\ a = SubSeq(b, 1, Len(a))

\* C15: on a well-formed tree and in a build without debug assertions, the
\* loop that starts at the root and calls
\* find_next_compatible_node(s) on the node last returned is given the
\* matching nodes after the root one by one in document order, none twice,
\* and has been given all of them when it ends with None.
C15_LoopVisitsEachOnce ==
    (phase = "compat" /\ WellFormed(src) /\ ~debug) =>
        /\ IsPrefix(hits, MatchesFrom(src.toks, 2, arg))
        /\ res.kind \in {"node", "none"}
        /\ (res.kind = "none") => hits = MatchesFrom(src.toks, 2, arg)
        /\ (res.kind = "node" /\ op # "root") => hits[Len(hits)] = res.name

\* the loop ended after two nodes, on a tree whose root matches too
C15_Witness ==
    /\ phase = "compat" /\ WellFormed(src) /\ ~debug /\ res.kind = "none"
    /\ Len(hits) = 2
    /\ Matches(src.toks, 1, arg)

\* C16: on a well-formed tree and in a build without debug assertions,
\* find_first_compatible_node(s) returns the
\* first node in document order, the root and the last node included, that
\* owns a property named "compatible" whose first string is s, and None
\* when no node does.
C16_FindFirst ==
    (phase = "first" /\ WellFormed(src) /\ ~debug) =>
        IsNthNode(res, FirstMatchAfter(src.toks, 0, arg))

\* the only match is the last of three nodes
C16_Witness ==
    /\ phase = "first" /\ WellFormed(src) /\ ~debug /\ res.kind = "node"
    /\ Count(src.toks, "B") = 3
    /\ res.name = NodeName(3)

\* the root is the match
C16_WitnessRoot ==
    /\ phase = "first" /\ WellFormed(src) /\ ~debug /\ res.kind = "node"
    /\ res.name = NodeName(1) /\ Count(src.toks, "B") = 3

(***************************************************************************)
(* The reservation map.                                                    *)
(***************************************************************************)
\* C17: on a blob whose reservation map holds n entries, the terminating
\* all-zero entry and further entries behind it, reserved_entries() yields
\* the n entries in order and then None; the terminating entry and the
\* entries behind it are never yielded.
C17_ReserveStopsAtTerminator ==
    (phase = "rsv" /\ PlainHeader(src)) =>
        /\ res.kind # "panic"
        /\ Len(hits) <= src.nrsv
        /\ \A k \in 1..Len(hits) : hits[k] = RsvEntry(k)
        /\ (op = "next" /\ res.kind = "none") => Len(hits) = src.nrsv

\* the iterator has stopped after two entries with an entry left behind the
\* terminator
C17_Witness ==
    /\ phase = "rsv" /\ PlainHeader(src)
    /\ op = "next" /\ res.kind = "none"
    /\ Len(hits) = 2 /\ src.post >= 1

(***************************************************************************)
(* The readers of a property's value.                                      *)
(***************************************************************************)
\* C18: on a value of L bytes, get_u32(o) returns the big-endian value of the
\* bytes o..o+3 exactly when o + 4 <= L and InvalidOffset otherwise;
\* get_u64(o) returns the big-endian value of the bytes o..o+7 exactly when
\* o + 8 <= L and InvalidOffset otherwise; get_phandle(o) returns what
\* get_u32(o) returns.
C18_BoundedReads ==
    LET v == res.val
        o == arg[1]
        W(i) == ((v[i + 1] * 256 + v[i + 2]) * 256 + v[i + 3]) * 256 + v[i + 4]
    IN  /\ (phase = "read" /\ hdr.fn \in {"get_u32", "get_phandle"}) =>
              IF o + 4 <= Len(v) THEN hdr.st = "ok" /\ hdr.v = W(o)
              ELSE hdr.st = "InvalidOffset"
        /\ (phase = "read" /\ hdr.fn = "get_u64") =>
              IF o + 8 <= Len(v) THEN hdr.st = "ok" /\ hdr.v = <<W(o), W(o + 4)>>
              ELSE hdr.st = "InvalidOffset"

\* a read of the last four bytes of a value succeeds
C18_Witness ==
    /\ phase = "read" /\ hdr.fn = "get_u32" /\ hdr.st = "ok"
    /\ arg[1] > 0 /\ arg[1] + 4 = Len(res.val)

\* a 64-bit read of the last eight bytes of a value succeeds
C18_WitnessU64 ==
    /\ phase = "read" /\ hdr.fn = "get_u64" /\ hdr.st = "ok"
    /\ arg[1] > 0 /\ arg[1] + 8 = Len(res.val)

\* C19: on a value that is exactly n NUL-terminated strings s1..sn,
\* get_str_count returns n, and get_strlist with a list of at least n slots
\* returns n and stores s1..sn in the first n slots in order; on the empty
\* value both return 0.
C19_StringLists ==
    (phase = "read" /\ src.raw = 0) =>
        /\ hdr.fn = "get_str_count" => hdr.st = "ok" /\ hdr.v = Len(src.ss)
        /\ (hdr.fn = "get_strlist" /\ Len(hits) >= Len(src.ss)) =>
              /\ hdr.st = "ok" /\ hdr.v = Len(src.ss)
              /\ \A i \in 1..Len(src.ss) : hits[i] = Some(src.ss[i])
              /\ \A i \in (Len(src.ss) + 1)..Len(hits) : hits[i] = None

\* two strings were stored in a list of three slots
C19_Witness ==
    /\ phase = "read" /\ src.raw = 0 /\ hdr.fn = "get_strlist" /\ hdr.st = "ok"
    /\ Len(src.ss) = 2 /\ Len(hits) = 3
    /\ src.ss[1] # src.ss[2]

C20_WitnessIndex ==
    /\ phase = "icloned" /\ Ended(hits) /\ Ended(seen)
    /\ \E i \in 1..Len(seen) : seen[i].kind = "prop"
    /\ Len(hits) >= 3

(***************************************************************************)
(* The properties of one node.                                             *)
(***************************************************************************)
PropToks == {"P"} \cup StrProps

\* the struct block holds no damaged token
Clean(ts) == \A j \in 1..Len(ts) : ts[j] \in {"B", "E", "N", "X"} \cup PropToks

\* the position of the i-th BEGIN_NODE
BPos(ts, i) == CHOOSE j \in 1..Len(ts) : ts[j] = "B" /\ NodeOfTok(ts, j) = i

\* the position of the first token after position s that is neither a
\* property nor a NOP, Len(ts) + 1 when there is none
HeaderEnd(ts, s) ==
    LET E == {j \in (s + 1)..Len(ts) : ts[j] \notin PropToks \cup {"N"}}
    IN  IF E = {} THEN Len(ts) + 1 ELSE CHOOSE j \in E : \A x \in E : j <= x

\* the property at position j as a client sees it, attached to node i
PropAt(ts, j, i) ==
    LET k == Count(SubSeq(ts, 1, j), "P")
    IN  [kind |-> "prop", name |-> NodeName(i),
         val |-> IF ts[j] = "P" THEN PropVal(k) ELSE StrPropVal(ts[j]),
         nameoff |-> IF ts[j] = "P" THEN PropNameOff(k) ELSE StrPropNameOff(ts[j])]

\* the properties between the i-th BEGIN_NODE and the next BEGIN_NODE or
\* END_NODE, in source order
HeaderProps(ts, i) ==
    LET s == BPos(ts, i)
        q == SelectSeq([j \in 1..(HeaderEnd(ts, s) - s - 1) |-> s + j],
                       LAMBDA j : ts[j] \in PropToks)
    IN  [k \in 1..Len(q) |-> PropAt(ts, q[k], i)]

\* what the k-th call of method o on the unindexed cursor c returns
RECURSIVE BaseNth(_, _, _, _, _)
BaseNth(b, addr, c, o, k) ==
    LET r == Step(o, b, addr, c, debug)
    IN  IF k = 1 THEN r.res ELSE BaseNth(b, addr, r.cur, o, k - 1)

\* what the k-th call of method o on the indexed cursor c returns
RECURSIVE IndexNth(_, _, _, _)
IndexNth(m, c, o, k) ==
    LET r == IndexStep(o, m, c)
    IN  IF k = 1 THEN r.res ELSE IndexNth(m, r.cur, o, k - 1)

\* C21: in both engines, for every node N, N.props() yields exactly the
\* properties between N's BEGIN_NODE and the next BEGIN_NODE or END_NODE, in
\* source order, each attached to N, and then returns None.  Stated for
\* struct blocks without damaged tokens; the unindexed part in a build without
\* debug assertions, the indexed part when the build of the index ends.
C21_NodeProps ==
    /\ (phase = "tree" /\ Clean(src.toks) /\ ~debug) =>
          \A i \in 1..Len(BaseDrain(buf, src.addr, DevTreeIter_new(buf), "next_node")) :
              LET bn == NthBaseNode(buf, src.addr, DevTreeIter_new(buf), i)
                  bp == BaseDrain(buf, src.addr, bn.iter, "next_node_prop")
              IN  /\ bp = HeaderProps(src.toks, i)
                  /\ BaseNth(buf, src.addr, bn.iter, "next_node_prop", Len(bp) + 1).kind = "none"
    /\ (Built /\ phase = "build" /\ Clean(src.toks)) =>
          \A i \in 1..Cardinality(NodeAddrs) :
              LET n  == NthAddr(NodeAddrs, i)
                  ip == IndexDrain(mem, from_node(n), "next_node_prop", Fuel)
              IN  /\ ip = HeaderProps(src.toks, i)
                  /\ IndexNth(mem, from_node(n), "next_node_prop", Len(ip) + 1).kind = "none"

\* the index of a tree whose root has two properties and a child with one
\* was built, and the child's props() in the unindexed engine yields its one
C21_Witness ==
    /\ Built /\ phase = "build" /\ WellFormed(src)
    /\ Cardinality(NodeAddrs) >= 2
    /\ Len(HeaderProps(src.toks, 1)) = 2
    /\ Len(HeaderProps(src.toks, 2)) = 1
    /\ Len(IndexDrain(mem, from_node(NthAddr(NodeAddrs, 2)), "next_node_prop", Fuel)) = 1

(***************************************************************************)
(* Errors of the build and of the token parser.                            *)
(***************************************************************************)
\* a token the parser rejects (unknown value, nameoff past the buffer)
\* stands before the first END
RejectedBeforeEnd(ts) ==
    \E j \in 1..Len(ts) :
        /\ ts[j] \in {"U", "M"}
        /\ \A i \in 1..(j - 1) : ts[i] # "X"

\* C22: when the token parser rejects a token of the struct block before its
\* END token, the build of the index does not end with Ok.
C22_BuildRejects ==
    (phase = "build" /\ RejectedBeforeEnd(src.toks)) => bld.st # "ok"

(***************************************************************************)
(* The siblings of a node of the index.                                    *)
(***************************************************************************)
\* n and the later children of n's parent, in document order
RECURSIVE SiblingsFrom(_)
SiblingsFrom(n) ==
    <<IndexView(mem, IndexNode(mem, n))>>
        \o (IF NextSiblingOf(n) # 0 THEN SiblingsFrom(NextSiblingOf(n)) ELSE <<>>)

\* C23: on the index of a well-formed tree, for every node N the sibling
\* iterator started at N yields N, then the later children of N's parent in
\* document order, and then returns None.
C23_Siblings ==
    (Built /\ phase = "build" /\ WellFormed(src)) =>
        \A n \in NodeAddrs :
            LET sb == IndexDrain(mem, from_node(n), "next_sibling", Fuel)
            IN  /\ sb = SiblingsFrom(n)
                /\ IndexNth(mem, from_node(n), "next_sibling", Len(sb) + 1).kind = "none"

\* the token res was parsed from, by its first word at the offset the call
\* started at
TokWord == Slice(buf, start.offset, start.offset + SIZE_u32)

Called == phase = "toks" /\ op = "next_devtree_token"

roundup4(x) == ((x + 3) \div 4) * 4

\* C24: after every successful call of next_devtree_token started at a
\* 4-byte-aligned offset (on the buffer of an opened tree, whose address is
\* 4-byte aligned), the offset is a multiple of 4 and greater than before:
\* off0 + 4 after END_NODE, NOP and END, roundup4(off0 + 4 + len(name) + 1)
\* after BEGIN_NODE, roundup4(off0 + 4 + 8 + len) after PROP.
C24_OffsetAdvance ==
    (Called /\ res.st \in {"tok", "end"} /\ start.offset % 4 = 0) =>
        /\ cur.offset % 4 = 0
        /\ cur.offset > start.offset
        /\ cur.offset =
              CASE res.st = "tok" /\ res.kind = "BeginNode" ->
                      roundup4(start.offset + 4 + Len(res.name) + 1)
                [] res.st = "tok" /\ res.kind = "Prop" ->
                      roundup4(start.offset + 4 + 8 + Len(res.val))
                [] OTHER -> start.offset + 4

\* a BEGIN_NODE with a name of two bytes was parsed: one byte of padding
C24_Witness ==
    /\ Called /\ res.st = "tok" /\ res.kind = "BeginNode" /\ Len(res.name) = 2
    /\ start.offset % 4 = 0
    /\ cur.offset = start.offset + 8

\* a PROP with a value of five bytes was parsed: three bytes of padding
C24_WitnessProp ==
    /\ Called /\ res.st = "tok" /\ res.kind = "Prop" /\ Len(res.val) = 5
    /\ start.offset % 4 = 0
    /\ cur.offset = start.offset + 20

\* C25: in a build without debug assertions, next_devtree_token returns
\* ParseError when the token word is none of BEGIN_NODE, END_NODE, PROP, NOP
\* and END, and when the nameoff of a PROP whose header and value lie inside
\* the buffer exceeds the length of the buffer; it returns None exactly on
\* the END token.
C25_ParseErrors ==
    (Called /\ ~debug) =>
        LET off0     == start.offset
            readable == off0 + SIZE_u32 <= Len(buf)
            len      == U32(Slice(buf, off0 + 4, off0 + 8))
            nameoff  == U32(Slice(buf, off0 + 8, off0 + 12))
        IN  /\ (readable /\ TokWord \notin {BE32(TOK_BEGIN_NODE), BE32(TOK_END_NODE),
                                           BE32(TOK_PROP), BE32(TOK_NOP), BE32(TOK_END)})
                  => res.st = "err"
            /\ (readable /\ TokWord = BE32(TOK_PROP) /\ off0 + 12 <= Len(buf)
                  /\ off0 + 12 + len <= Len(buf) /\ nameoff > Len(buf))
                  => res.st = "err"
            /\ res.st = "end" <=> (readable /\ TokWord = BE32(TOK_END))

\* an unknown token value was rejected
C25_Witness ==
    /\ Called /\ ~debug /\ res.st = "err"
    /\ start.offset + SIZE_u32 <= Len(buf)
    /\ TokWord = BE32(5)

\* a PROP whose nameoff is past the buffer was rejected
C25_WitnessNameoff ==
    /\ Called /\ ~debug /\ res.st = "err"
    /\ start.offset + 12 <= Len(buf)
    /\ TokWord = BE32(TOK_PROP)
    /\ U32(Slice(buf, start.offset + 8, start.offset + 12)) > Len(buf)

\* C26: next_devtree_token returns an error when the 8-byte header of a PROP
\* token, or the len bytes of its value, extend past the end of the buffer.
C26_PropInsideBuffer ==
    (Called /\ start.offset + SIZE_u32 <= Len(buf) /\ TokWord = BE32(TOK_PROP)) =>
        LET off1 == start.offset + SIZE_u32
        IN  (\/ off1 + SIZE_fdt_prop_header > Len(buf)
             \/ off1 + SIZE_fdt_prop_header + U32(Slice(buf, off1, off1 + 4)) > Len(buf))
                => res.st = "err"

(***************************************************************************)
(* The node a property of the unindexed cursor is attached to.             *)
(***************************************************************************)
\* the token that ends at offset off, 0 when no token ends there
TokEndingAt(inp, b, off) ==
    LET S == {i \in 1..Len(inp.toks) : TokOff(inp, b, i + 1) = off}
    IN  IF S = {} THEN 0 ELSE CHOOSE i \in S : TRUE

\* the last BEGIN_NODE before token i, 0 when there is none
LastBegin(ts, i) ==
    LET S == {j \in 1..(i - 1) : ts[j] = "B"}
    IN  IF S = {} THEN 0 ELSE CHOOSE j \in S : \A x \in S : x <= j

\* a node is open at token i: a BEGIN_NODE stands before it and no END_NODE
\* since
NodeOpenAt(ts, i) ==
    /\ LastBegin(ts, i) # 0
    /\ \A k \in LastBegin(ts, i)..(i - 1) : ts[k] # "E"

\* C27: every property the unindexed cursor yields is attached to the node
\* of the most recent BEGIN_NODE token, and a node is open there (no END_NODE
\* since that BEGIN_NODE); a call of next() that ends at a PROP token yields
\* that property when a node is open and None when none is.  Stated for
\* struct blocks without damaged tokens.
C27_PropParent ==
    [][(/\ phase = "items" /\ phase' = "items" /\ cur'.offset # cur.offset
        /\ (res'.kind = "prop" \/ op' = "next") /\ Clean(src.toks))
          => \A i \in {TokEndingAt(src, buf, cur'.offset)} :
             \A open \in {i # 0 /\ NodeOpenAt(src.toks, i)} :
                 /\ res'.kind = "prop" =>
                        /\ i # 0 /\ src.toks[i] \in PropToks
                        /\ open
                        /\ \A o \in {TokOff(src, buf, LastBegin(src.toks, i))} :
                               res'.iter = Cursor(o, o)
                 /\ (op' = "next" /\ i # 0 /\ src.toks[i] \in PropToks) =>
                        IF open THEN res'.kind = "prop"
                        ELSE res'.kind = "none"]_vars

\* a PROP token after the END_NODE of the only node yielded None
C27_Witness ==
    /\ phase = "items" /\ op = "next" /\ res.kind = "none" /\ Clean(src.toks)
    /\ LET i == TokEndingAt(src, buf, cur.offset)
       IN  /\ i # 0 /\ src.toks[i] = "P"
           /\ LastBegin(src.toks, i) # 0
           /\ ~NodeOpenAt(src.toks, i)

\* a property of the second node was yielded
C27_WitnessNested ==
    /\ phase = "items" /\ op = "next" /\ res.kind = "prop" /\ Clean(src.toks)
    /\ LET i == TokEndingAt(src, buf, cur.offset)
       IN  /\ i # 0 /\ NodeOfTok(src.toks, i) = 2
           /\ res.iter.offset = TokOff(src, buf, LastBegin(src.toks, i))

\* C28: for every property p the unindexed cursor yields, p.node() returns a
\* node (its unwrap does not fail), and that node has the name and the cursor
\* of the node the stream yielded most recently before p: the node of the
\* last BEGIN_NODE before p, with the cursor that stands after that token and
\* has it as parent.  Stated for struct blocks without damaged tokens.
C28_PropNode ==
    (phase = "items" /\ res.kind = "prop" /\ Clean(src.toks)) =>
        LET i == TokEndingAt(src, buf, cur.offset)
            j == LastBegin(src.toks, i)
            n == prop_node(buf, src.addr, res)
        IN  /\ i # 0 /\ j # 0
            /\ n.kind = "node"
            /\ n.name = NodeName(NodeOfTok(src.toks, i))
            /\ n.iter = Cursor(TokOff(src, buf, j + 1), TokOff(src, buf, j))

\* a property of a node with a name was yielded after another node
C28_Witness ==
    /\ phase = "items" /\ res.kind = "prop"
    /\ prop_node(buf, src.addr, res).kind = "node"
    /\ Len(prop_node(buf, src.addr, res).name) >= 1
    /\ NodeOfTok(src.toks, TokEndingAt(src, buf, cur.offset)) >= 2

(***************************************************************************)
(* END_NODE in the build of the index.                                     *)
(***************************************************************************)
\* the token that starts at offset off, 0 when no token starts there
TokStartingAt(inp, b, off) ==
    LET S == {i \in 1..Len(inp.toks) : TokOff(inp, b, i) = off}
    IN  IF S = {} THEN 0 ELSE CHOOSE i \in S : TRUE

\* C29: when the parse iterator hands an END_NODE token to the build of the
\* index, the build fails with ParseError if no node is open (cur_node is
\* null), which is the case exactly when the struct block up to and with that
\* token holds more END_NODE than BEGIN_NODE tokens; otherwise cur_node
\* becomes its parent, in_node_header becomes false and the build goes on.
C29_EndNode ==
    [][(/\ phase = "build" /\ bld.st \in {"init", "loop"}
        /\ parse_iter_next(buf, src.addr, bld.poff, debug).st = "tok"
        /\ parse_iter_next(buf, src.addr, bld.poff, debug).kind = "EndNode")
          => LET i  == TokStartingAt(src, buf, bld.poff)
                 ts == SubSeq(src.toks, 1, i)
             IN  /\ i # 0 /\ src.toks[i] = "E"
                 /\ bld.cur_node = 0 <=> Count(ts, "E") > Count(ts, "B")
                 /\ IF bld.cur_node = 0 THEN bld'.st = "ParseError"
                    ELSE /\ bld'.st = "loop"
                         /\ bld'.cur_node = mem[bld.cur_node].parent
                         /\ ~bld'.in_node_header]_vars

\* the build failed at the END_NODE that follows the END_NODE of the root
C29_Witness ==
    /\ phase = "build" /\ bld.st = "ParseError" /\ bld.root # 0 /\ bld.cur_node = 0
    /\ LET i == TokEndingAt(src, buf, bld.poff)
       IN  i > 2 /\ src.toks[i] = "E" /\ src.toks[i - 1] = "E"

\* the END_NODE of a child made the root the open node again
C29_WitnessParent ==
    /\ phase = "build" /\ bld.st = "loop" /\ bld.cur_node = bld.root /\ ~bld.in_node_header
    /\ LET i == TokEndingAt(src, buf, bld.poff)
       IN  i # 0 /\ src.toks[i] = "E"

(***************************************************************************)
(* END_NODE without a BEGIN_NODE in the unindexed cursor.                  *)
(***************************************************************************)
\* the END_NODE at position e closes no node
Unmatched(ts, e) == ts[e] = "E" /\ Depth(SubSeq(ts, 1, e - 1)) = 0

\* C30 as stated: the unindexed cursor yields no node and no property that
\* is located after an END_NODE token without a matching BEGIN_NODE.
C30_UnmatchedEndTerminates ==
    (phase = "items" /\ res.kind \in {"node", "prop"} /\ Clean(src.toks)) =>
        LET i == TokEndingAt(src, buf, cur.offset)
        IN  ~ \E e \in 1..(i - 1) : Unmatched(src.toks, e)

\* C30 amended: in a build without debug assertions the unindexed cursor
\* passes over an END_NODE token without a matching BEGIN_NODE as over every
\* END_NODE: the call of next() that reads it clears the open node and goes
\* on to the tokens behind it, and yields the node of the next BEGIN_NODE
\* when the first token behind it that is neither END_NODE nor NOP is a
\* BEGIN_NODE, and None when that token is a PROP or END or the buffer ends.
C30_UnmatchedEndSkipped ==
    [][(/\ phase = "items" /\ phase' = "items" /\ op' = "next"
        /\ cur'.offset # cur.offset /\ Clean(src.toks) /\ ~debug)
          => LET s == TokStartingAt(src, buf, cur.offset)
             IN  \A e \in 1..Len(src.toks) :
                    (/\ s # 0 /\ s <= e /\ Unmatched(src.toks, e)
                     /\ \A k \in s..(e - 1) : src.toks[k] \in {"E", "N"})
                       => LET F == {f \in (e + 1)..Len(src.toks) : src.toks[f] \notin {"E", "N"}}
                              f == CHOOSE x \in F : \A y \in F : x <= y
                          IN  IF F # {} /\ src.toks[f] = "B"
                              THEN /\ res'.kind = "node"
                                   /\ res'.name = NodeName(NodeOfTok(src.toks, f))
                                   /\ cur'.offset = TokOff(src, buf, f + 1)
                              ELSE res'.kind = "none"]_vars

\* next() yielded a node that stands behind an END_NODE without BEGIN_NODE
C30_Witness ==
    /\ phase = "items" /\ op = "next" /\ res.kind = "node" /\ Clean(src.toks) /\ ~debug
    /\ LET i == TokEndingAt(src, buf, cur.offset)
       IN  i > 1 /\ Unmatched(src.toks, i - 1)

(***************************************************************************)
(* PROP outside a node header in the build of the index.                   *)
(***************************************************************************)
\* C31: when the parse iterator hands a PROP token to the build of the index
\* while in_node_header is false, the build fails with ParseError, and the
\* records of the index (the property records and every num_props) are as
\* before; on struct blocks without damaged tokens in_node_header is false
\* exactly when an END_NODE or no BEGIN_NODE at all stands between the last
\* BEGIN_NODE and the PROP token.
C31_PropOutsideHeader ==
    [][(/\ phase = "build" /\ bld.st \in {"init", "loop"}
        /\ parse_iter_next(buf, src.addr, bld.poff, debug).st = "tok"
        /\ parse_iter_next(buf, src.addr, bld.poff, debug).kind = "Prop")
          => \A i \in {TokStartingAt(src, buf, bld.poff)} :
                 /\ i # 0 /\ src.toks[i] \in PropToks
                 /\ Clean(src.toks) => (bld.in_node_header <=> NodeOpenAt(src.toks, i))
                 /\ ~bld.in_node_header =>
                        /\ bld'.st = "ParseError"
                        /\ mem' = mem
                        /\ bld'.front_off = bld.front_off]_vars

\* the build failed at a PROP token that follows the END_NODE of a child
\* while the parent is still open
C31_Witness ==
    /\ phase = "build" /\ bld.st = "ParseError" /\ bld.cur_node # 0 /\ ~bld.in_node_header
    /\ \A i \in {TokEndingAt(src, buf, bld.poff)} :
           /\ i > 3 /\ src.toks[i] \in PropToks /\ src.toks[i - 1] = "E"
           /\ \A n \in DOMAIN mem : mem[n].num_props = 0

(***************************************************************************)
(* A reservation map without the terminating entry.                        *)
(***************************************************************************)
\* the entries of 16 bytes that lie inside the buffer from the start of the
\* reservation map on
EntriesInside(b) == (Len(b) - off_mem_rsvmap(b).v) \div SIZE_fdt_reserve_entry

\* C32: on a blob with a sound header whose reservation map has no all-zero
\* terminating entry, no call of next() of reserved_entries() panics or reads
\* outside the buffer, every entry yielded lies inside the buffer, and the
\* iterator is never left at an offset of the buffer that it can neither
\* read nor pass: a call at an offset at which no entry fits returns None.
C32_NoTerminatorEnds ==
    (phase = "rsv" /\ src \in RsvInputs /\ ~src.term) =>
        /\ res.kind # "panic"
        /\ Len(hits) <= EntriesInside(buf)
        /\ \A k \in 1..Len(hits) :
              hits[k] = Slice(buf, off_mem_rsvmap(buf).v + SIZE_fdt_reserve_entry * (k - 1),
                              off_mem_rsvmap(buf).v + SIZE_fdt_reserve_entry * k)

(***************************************************************************)
(* The property-only iterator of the index.                                *)
(***************************************************************************)
\* the properties of the nodes i..n in BEGIN_NODE order, each node's in
\* source order
RECURSIVE PropsOfNodes(_, _, _)
PropsOfNodes(ts, i, n) ==
    IF i > n THEN <<>> ELSE HeaderProps(ts, i) \o PropsOfNodes(ts, i + 1, n)

\* C33: on every built index (of a struct block without damaged tokens) the
\* property-only iterator yields the properties of all nodes, every one once,
\* the nodes in BEGIN_NODE order and a node's properties in source order,
\* passing over nodes without properties, and the call after the last
\* property returns None.
C33_PropIter ==
    (Built /\ phase = "build" /\ Clean(src.toks)) =>
        LET d == IndexDrain(mem, DevTreeIndexIter_new(bld.root), "next_prop", Fuel)
        IN  /\ d = PropsOfNodes(src.toks, 1, Cardinality(NodeAddrs))
            /\ IndexNth(mem, DevTreeIndexIter_new(bld.root), "next_prop", Len(d) + 1).kind
                  = "none"

(***************************************************************************)
(* next_node_prop and the node it does not yield.                          *)
(***************************************************************************)
\* C34: a call of next_node_prop() on the unindexed cursor looks at the one
\* item next() would yield: when that item is a property the call yields it,
\* and when it is a node the call yields None and leaves the node on the
\* cursor, so that next() on the cursor after the call yields that node.
C34_PeekNode ==
    [][(phase = "items" /\ phase' = "items" /\ op' = "next_node_prop")
          => \A r \in {next_devtree_item(buf, src.addr, cur, debug)} :
                 /\ r.res.kind = "prop" => res' = r.res
                 /\ r.res.kind = "node" =>
                        /\ res'.kind = "none"
                        /\ next_devtree_item(buf, src.addr, cur', debug).res = r.res]_vars

(***************************************************************************)
(* NOP tokens.                                                             *)
(***************************************************************************)
\* the input without its NOP tokens
WithoutNops(inp) == [inp EXCEPT !.toks = SelectSeq(inp.toks, LAMBDA t : t # "N")]

\* the items next() yields up to its first None, as a client sees them, and
\* how the iteration ends
ItemsOf(b, addr) ==
    LET d == BaseDrain(b, addr, DevTreeIter_new(b), "next")
    IN  [items |-> d, last |-> BaseNth(b, addr, DevTreeIter_new(b), "next", Len(d) + 1).kind]

\* C35: a blob and the blob of the same tokens without the NOP tokens have
\* the same items on the unindexed cursor (kinds, node names, property values
\* and name offsets, and the node every property is attached to), the same
\* size and alignment from get_layout, and, built into the same index buffer,
\* the same result of DevTreeIndex::new and the same records in the index.
C35_NopTransparent ==
    /\ (phase = "tree" /\ Count(src.toks, "N") > 0) =>
          \A b0 \in {Encode(WithoutNops(src))} :
              /\ ItemsOf(buf, src.addr) = ItemsOf(b0, src.addr)
              /\ get_layout(buf, src.addr, debug) = get_layout(b0, src.addr, debug)
    /\ (phase = "build" /\ bld.st \notin {"init", "loop"} /\ Count(src.toks, "N") > 0) =>
          \A b0 \in {Encode(WithoutNops(src))} :
          \A r \in {build_from(ibuf, b0, src.addr, debug,
                               Builder("init", off_dt_struct(b0).v, 0, 0, 0, FALSE, 0),
                               <<>>)} :
              /\ r.b.st = bld.st
              /\ r.b.root = bld.root
              /\ r.b.front_off = bld.front_off
              /\ r.m = mem

\* the index of a tree was built whose struct block has a NOP between a
\* BEGIN_NODE and the property of that node, and a second node
C35_Witness ==
    /\ Built /\ phase = "build" /\ WellFormed(src)
    /\ Cardinality(NodeAddrs) >= 2
    /\ \E i \in 2..(Len(src.toks) - 1) :
          src.toks[i - 1] = "B" /\ src.toks[i] = "N" /\ src.toks[i + 1] = "P"
    /\ \E n \in NodeAddrs : mem[n].num_props = 1

(***************************************************************************)
(* The parent and first_child pointers of the index.                       *)
(***************************************************************************)
\* the position of the innermost BEGIN_NODE before position j that no
\* END_NODE before j has closed, 0 when there is none
OpenBegin(ts, j) ==
    LET S == {k \in 1..(j - 1) :
                Count(SubSeq(ts, k, j - 1), "B") > Count(SubSeq(ts, k, j - 1), "E")}
    IN  IF S = {} THEN 0 ELSE CHOOSE k \in S : \A x \in S : x <= k

\* C36: in every built index (of a struct block without damaged tokens)
\* there is one node record per BEGIN_NODE; the parent of the i-th node is
\* the node of the innermost BEGIN_NODE that was not closed when the i-th
\* BEGIN_NODE came, and null when there was none; the root is the first node
\* and its parent is null; first_child of a node is the first node written
\* with that node as parent, and null exactly when no node has it as parent.
C36_ParentPointers ==
    (Built /\ phase = "build" /\ Clean(src.toks)) =>
        /\ Cardinality(NodeAddrs) = Count(src.toks, "B")
        /\ bld.root = NthAddr(NodeAddrs, 1)
        /\ mem[bld.root].parent = 0
        /\ \A i \in 1..Cardinality(NodeAddrs) :
             \A n \in {NthAddr(NodeAddrs, i)} :
             \A k \in {OpenBegin(src.toks, BPos(src.toks, i))} :
             \A ch \in {{a \in NodeAddrs : mem[a].parent = n}} :
                 /\ mem[n].parent = IF k = 0 THEN 0
                                    ELSE NthAddr(NodeAddrs, NodeOfTok(src.toks, k))
                 /\ mem[n].first_child = 0 <=> ch = {}
                 /\ ch # {} => mem[n].first_child = CHOOSE a \in ch : \A y \in ch : a <= y

\* an index of three nodes was built in which the second and the third node
\* are children of the root
C36_Witness ==
    /\ Built /\ phase = "build" /\ WellFormed(src)
    /\ Cardinality(NodeAddrs) = 3
    /\ mem[NthAddr(NodeAddrs, 2)].parent = bld.root
    /\ mem[NthAddr(NodeAddrs, 3)].parent = bld.root
    /\ mem[bld.root].first_child = NthAddr(NodeAddrs, 2)

(***************************************************************************)
(* Progress and termination of the unindexed cursor.                       *)
(***************************************************************************)
\* the tokens of the struct block that start in [from, to)
TokensIn(inp, b, from, to) ==
    {k \in 1..Len(inp.toks) : from <= TokOff(inp, b, k) /\ TokOff(inp, b, k) < to}

\* a call of next() that returns moves the offset forward by at least 4 for
\* every token it consumed, and an item it yields is the token that ends at
\* the new offset, which lies at or behind the old offset
NextAdvances ==
    [][(phase = "items" /\ phase' = "items" /\ op' = "next" /\ res'.kind # "panic")
          => /\ cur'.offset >= cur.offset
                   + SIZE_u32 * Cardinality(TokensIn(src, buf, cur.offset, cur'.offset))
             /\ res'.kind \in {"node", "prop"} =>
                   \A i \in {TokEndingAt(src, buf, cur'.offset)} :
                       /\ i # 0
                       /\ TokOff(src, buf, i) >= cur.offset
                       /\ cur'.offset >= TokOff(src, buf, i) + SIZE_u32]_vars

\* once the client has the cursor, a call returns None
IterationEnds == (phase = "items" /\ ~debug) ~> (phase = "items" /\ res.kind = "none")

\* C37: every call of next() on the unindexed cursor moves its offset forward
\* by at least 4 for every token consumed, so that the items are yielded in
\* the order of their token offsets, and on every buffer a client that goes
\* on calling the cursor is returned None after finitely many calls.
C37_AdvanceAndEnd == NextAdvances /\ IterationEnds

(***************************************************************************)
(* The records of the index and the index buffer.                          *)
(***************************************************************************)
\* the bytes a record at address a takes
SizeOfRecord(a) == IF mem[a].t = "node" THEN SizeOfNode ELSE SizeOfProp

\* C38: at every point of the build of the index every record written lies
\* with all its bytes inside the index buffer and below front_off, at an
\* address that is a multiple of the alignment of DTINode, and no two records
\* overlap; this holds as well when the build has failed with
\* NotEnoughMemory; no step of the build lowers front_off.
C38_RecordsInsideBuffer ==
    /\ [](phase = "build" =>
            /\ \A a \in DOMAIN mem :
                  /\ ibuf.addr <= a
                  /\ a + SizeOfRecord(a) <= ibuf.addr + ibuf.len
                  /\ a + SizeOfRecord(a) <= ibuf.addr + bld.front_off
                  /\ a % AlignOfNode = 0
            /\ \A a, b \in DOMAIN mem : a < b => a + SizeOfRecord(a) <= b)
    /\ [][(phase = "build" /\ phase' = "build") => bld'.front_off >= bld.front_off]_vars

\* the build into a buffer that does not start at a multiple of the alignment
\* failed with NotEnoughMemory after it had written a node and a property
C38_Witness ==
    /\ phase = "build" /\ bld.st = "NotEnoughMemory"
    /\ ibuf.addr % AlignOfNode # 0
    /\ \E a, b \in DOMAIN mem : mem[a].t = "node" /\ mem[b].t = "prop"

(***************************************************************************)
(* current_prop_parent_off of the unindexed cursor.                        *)
(***************************************************************************)
\* the cursors the client holds: the live cursor and the snapshot in the
\* item returned last
HeldCursors == {cur, res.iter}

\* C39: whenever a tree is open, current_prop_parent_off of every cursor the
\* client holds is unset or an offset that is not 0, is a multiple of 4 and
\* is the offset of a BEGIN_NODE token the parser accepts; and no cursor
\* stands at offset 0 in front of a BEGIN_NODE token (offset 0 holds the
\* magic), so that NonZeroUsize::new_unchecked is never called with 0.
C39_ParentOffset ==
    (dt = "ok" /\ phase \in {"items", "found", "first", "compat"}) =>
        /\ \A c \in HeldCursors :
              c.parent # 0 =>
                  /\ c.parent % SIZE_u32 = 0
                  /\ \A t \in {next_devtree_token(buf, src.addr, c.parent, debug)} :
                         t.st = "tok" /\ t.kind = "BeginNode"
        /\ \A t \in {next_devtree_token(buf, src.addr, cur.offset, debug)} :
              (t.st = "tok" /\ t.kind = "BeginNode") => cur.offset # 0
        /\ Slice(buf, 0, SIZE_u32) = FDT_MAGIC

\* next() was called on a cursor that stood at offset 0, on the magic, and
\* returned None without opening a node
C39_WitnessZero ==
    /\ dt = "ok" /\ phase = "items" /\ op = "next" /\ res.kind = "none"
    /\ off_dt_struct(buf).v = 0 /\ cur = Cursor(SIZE_u32, 0)

\* a property was yielded whose snapshot holds the offset of the second
\* BEGIN_NODE
C39_Witness ==
    /\ dt = "ok" /\ phase = "items" /\ res.kind = "prop"
    /\ Count(src.toks, "B") >= 2
    /\ cur.parent = res.iter.parent
    /\ cur.parent = TokOff(src, buf, BPos(src.toks, 2))
====
